---- MODULE Spec2Model ----
(***************************************************************************)
(* A model of the KDL v2 parser of src/src/v2_parser.rs.                   *)
(*                                                                         *)
(* The parser is a set of winnow combinator parsers over an input of type  *)
(* Recoverable<Located<&str>, KdlParseError>.  Every parser of the source  *)
(* is an operator P(s, p, es): s is the source text (a sequence of code    *)
(* points), p the cursor (the number of characters consumed so far) and    *)
(* es the error list the Recoverable stream has accumulated.  A parser     *)
(* returns a record [t, pos, errs, v, e]:                                  *)
(*   t = "Ok"    success, value v, cursor pos                              *)
(*   t = "Bt"    ErrMode::Backtrack(e), cursor left at pos                 *)
(*   t = "Cut"   ErrMode::Cut(e), cursor left at pos                       *)
(*   t = "Panic" the thread panicked (debug builds only)                   *)
(* The error list survives every reset of the cursor: a checkpoint of      *)
(* Recoverable is a checkpoint of the inner stream alone.                  *)
(* An Option is <<>> (None) or <<x>> (Some(x)).                            *)
(***************************************************************************)
EXTENDS Integers, Sequences, FiniteSets, TLC

VARIABLES input,    \* the source text handed to try_parse
          build,    \* "debug" or "release": whether debug assertions are on
          entry,    \* the parser try_parse was called with ("" before the call)
          pc,       \* "ready" before the call, "done" after it
          outcome   \* what try_parse returned (NoOutcome before the call)

vars == <<input, build, entry, pc, outcome>>

(***************************************************************************)
(* Characters                                                              *)
(***************************************************************************)
EOF == -1
TAB == 9
LF == 10
FF == 12
CR == 13
SP == 32
QUOTE == 34
HASH == 35
LPAREN == 40
RPAREN == 41
STAR == 42
PLUS == 43
MINUS == 45
DOT == 46
SLASH == 47
SEMI == 59
EQUALS == 61
BSLASH == 92
UNDERSCORE == 95
LBRACE == 123
RBRACE == 125
NEL == 133
LS == 8232
PS == 8233
BOM == 65279

\* The table with CR tried before CRLF.
NEWLINES_cr_first == << <<CR>>, <<CR, LF>>, <<LF>>, <<NEL>>, <<FF>>, <<LS>>, <<PS>> >>

NEWLINES == << <<CR, LF>>, <<CR>>, <<LF>>, <<NEL>>, <<FF>>, <<LS>>, <<PS>> >>

UNICODE_SPACES == {TAB, 11, SP, 160, 5760} \cup (8192..8202) \cup {8239, 8287, 12288}

DISALLOWED_IDENT_CHARS ==
  {BSLASH, SLASH, LPAREN, RPAREN, LBRACE, RBRACE, 91, 93, SEMI, QUOTE, HASH}

is_disallowed_unicode(c) ==
  \/ c \in 0..8
  \/ c \in 14..31
  \/ c \in 8206..8207
  \/ c \in 8234..8238
  \/ c \in 8294..8297
  \/ c = BOM

DecDigits == 48..57
HexDigits == (48..57) \cup (65..70) \cup (97..102)
OctDigits == 48..55

\* "true", "false", "null", "inf", "-inf", "nan"
KW_true == <<116, 114, 117, 101>>
KW_false == <<102, 97, 108, 115, 101>>
KW_null == <<110, 117, 108, 108>>
KW_inf == <<105, 110, 102>>
KW_neg_inf == <<MINUS, 105, 110, 102>>
KW_nan == <<110, 97, 110>>

\* The character at the cursor, EOF at the end of the text.
At(s, p) == IF p < Len(s) THEN s[p + 1] ELSE EOF

\* The number of bytes of a character in UTF-8.
Utf8Len(c) == IF c < 128 THEN 1 ELSE IF c < 2048 THEN 2 ELSE IF c < 65536 THEN 3 ELSE 4

\* Located::location(): the byte offset of cursor p.
RECURSIVE Location(_, _)
Location(s, p) == IF p = 0 THEN 0 ELSE Location(s, p - 1) + Utf8Len(s[p])

RECURSIVE parse_next(_, _, _, _)

(***************************************************************************)
(* Results and errors                                                      *)
(***************************************************************************)
\* KdlParseError: context and span are Options (label and help are never set
\* by the parser), kind is "None", "ParseIntError" or "ParseFloatError".
NoErr == [context |-> <<>>, span |-> <<>>, kind |-> "None"]

Ok(p, es, v) == [t |-> "Ok", pos |-> p, errs |-> es, v |-> v, e |-> NoErr]
Err(t, p, es, e) == [t |-> t, pos |-> p, errs |-> es, v |-> <<>>, e |-> e]
Backtrack(p, es) == Err("Bt", p, es, NoErr)
Panic(p, es) == Err("Panic", p, es, NoErr)

\* ErrMode::assert: a panic with debug assertions ("assert ... failed", kept
\* as the kind Assert of the panic), a Cut error without.
AssertFailed(p, es) ==
  IF build = "debug" THEN Err("Panic", p, es, [NoErr EXCEPT !.kind = "Assert"])
  ELSE Err("Cut", p, es, NoErr)

WithValue(r, v) == IF r.t = "Ok" THEN [r EXCEPT !.v = v] ELSE r

(***************************************************************************)
(* winnow combinators, as functions of the results of their arguments      *)
(***************************************************************************)
literal(s, p, es, lit) ==
  IF p + Len(lit) <= Len(s) /\ SubSeq(s, p + 1, p + Len(lit)) = lit
  THEN Ok(p + Len(lit), es, lit)
  ELSE Backtrack(p, es)

any(s, p, es) == IF p < Len(s) THEN Ok(p + 1, es, s[p + 1]) ELSE Backtrack(p, es)

one_of(s, p, es, set) ==
  IF At(s, p) \in set THEN Ok(p + 1, es, s[p + 1]) ELSE Backtrack(p, es)

none_of(s, p, es, set) ==
  IF p < Len(s) /\ s[p + 1] \notin set THEN Ok(p + 1, es, s[p + 1]) ELSE Backtrack(p, es)

eof(s, p, es) == IF p = Len(s) THEN Ok(p, es, <<>>) ELSE Backtrack(p, es)

cut_err(r) == IF r.t = "Bt" THEN [r EXCEPT !.t = "Cut"] ELSE r

\* AddContext for KdlParseError: the first (innermost) context is kept.
add_context(e, ctx) == IF e.context = <<>> THEN [e EXCEPT !.context = <<ctx>>] ELSE e

context(r, ctx) ==
  IF r.t \in {"Bt", "Cut"} THEN [r EXCEPT !.e = add_context(r.e, ctx)] ELSE r

\* opt, peek and not of a parser that started at p and returned r.
opt(r, p) ==
  IF r.t = "Ok" THEN [r EXCEPT !.v = <<r.v>>]
  ELSE IF r.t = "Bt" THEN Ok(p, r.errs, <<>>)
  ELSE r

peek(r, p) == [r EXCEPT !.pos = p]

not(r, p) ==
  IF r.t = "Ok" THEN Backtrack(p, r.errs)
  ELSE IF r.t = "Bt" THEN Ok(p, r.errs, <<>>)
  ELSE [r EXCEPT !.pos = p]

\* Parser::take: the consumed slice as the value.
take(s, p, r) == WithValue(r, SubSeq(s, p + 1, r.pos))

\* The end of the longest run of characters of `set` that starts at p.
RECURSIVE RunIn(_, _, _)
RunIn(s, p, set) == IF At(s, p) \in set THEN RunIn(s, p + 1, set) ELSE p

\* The end of the longest run of characters not in `set` that starts at p.
RECURSIVE RunNotIn(_, _, _)
RunNotIn(s, p, set) ==
  IF p < Len(s) /\ s[p + 1] \notin set THEN RunNotIn(s, p + 1, set) ELSE p

\* from_recoverable_error: an error without a span gets the range
\* offset_from(token_start).saturating_sub(1) .. location(); turning the
\* range into a SourceSpan keeps its start and its (saturating) length.
SourceSpan(lo, hi) == [offset |-> lo, len |-> IF hi > lo THEN hi - lo ELSE 0]

from_recoverable_error(s, token_start, cur, e) ==
  IF e.span # <<>> THEN e
  ELSE LET off == Location(s, cur) - Location(s, token_start)
           lo == IF off > 0 THEN off - 1 ELSE 0
       IN [e EXCEPT !.span = <<SourceSpan(lo, Location(s, cur))>>]

\* winnow's rest: everything up to the end of the input.
rest(s, p, es) == Ok(Len(s), es, <<>>)

\* Parser::resume_after: r is the result of the parser started at token_start,
\* rec the result of the parser `recover` started where r failed.
resume_after(s, token_start, r, recover) ==
  LET recovered(rec) ==
        IF rec.t = "Panic" THEN rec
        ELSE IF rec.t = "Ok"
        THEN Ok(rec.pos,
                Append(rec.errs, from_recoverable_error(s, token_start, rec.pos, r.e)),
                <<>>)
        ELSE Err(r.t, r.pos, rec.errs, from_recoverable_error(s, token_start, r.pos, r.e))
  IN IF r.t = "Ok" THEN [r EXCEPT !.v = <<r.v>>]
     ELSE IF r.t = "Panic" THEN r
     ELSE recovered(parse_next(recover, s, r.pos, r.errs))

(***************************************************************************)
(* Whitespace and comments                                                 *)
(***************************************************************************)
\* alt over the NEWLINES table, first match first, from entry i.
RECURSIVE NewlineFrom(_, _, _, _)
NewlineFrom(s, p, es, i) ==
  IF i > Len(NEWLINES) THEN Backtrack(p, es)
  ELSE LET r == literal(s, p, es, NEWLINES[i])
       IN IF r.t = "Ok" THEN WithValue(r, <<>>) ELSE NewlineFrom(s, p, es, i + 1)

newline(s, p, es) == context(NewlineFrom(s, p, es, 1), "newline")

unicode_space(s, p, es) == WithValue(one_of(s, p, es, UNICODE_SPACES), <<>>)

disallowed_unicode(s, p, es) ==
  IF p < Len(s) /\ is_disallowed_unicode(s[p + 1])
  THEN Ok(CHOOSE q \in (p + 1)..Len(s) :
            /\ \A i \in (p + 1)..q : is_disallowed_unicode(s[i])
            /\ (q = Len(s) \/ ~is_disallowed_unicode(s[q + 1])),
          es, <<>>)
  ELSE Backtrack(p, es)


\* commented_block without its multi_line_comment alternative.
commented_block_flat(s, p, es) ==
  LET close == literal(s, p, es, <<STAR, SLASH>>)
  IN IF close.t = "Ok" THEN WithValue(close, <<>>)
     ELSE IF p >= Len(s) THEN Backtrack(p, es)
     ELSE parse_next("commented_block", s, p + 1, es)

\* commented-block := '*/' | (multi-line-comment | '*' | '/' | [^*/]+) commented-block
commented_block(s, p, es) ==
  LET close == literal(s, p, es, <<STAR, SLASH>>)
      nested == parse_next("multi_line_comment", s, p, es)
      star == literal(s, p, es, <<STAR>>)
      slash == literal(s, p, es, <<SLASH>>)
      run == RunNotIn(s, p, {STAR, SLASH})
      first == IF nested.t # "Bt" THEN nested
               ELSE IF star.t = "Ok" THEN star
               ELSE IF slash.t = "Ok" THEN slash
               ELSE IF run > p THEN Ok(run, es, <<>>)
               ELSE Backtrack(p, es)
  IN IF close.t = "Ok" THEN WithValue(close, <<>>)
     ELSE IF first.t # "Ok" THEN first
     ELSE parse_next("commented_block", s, first.pos, first.errs)

multi_line_comment(s, p, es) ==
  LET open == literal(s, p, es, <<SLASH, STAR>>)
  IN IF open.t # "Ok" THEN open
     ELSE context(cut_err(parse_next("commented_block", s, open.pos, es)), "closing of multi-line comment")

\* ws made optional: it succeeds without consuming where there is no space.
ws_or_nothing(s, p, es) ==
  LET r1 == parse_next("unicode_space", s, p, es)
      r2 == parse_next("multi_line_comment", s, p, es)
  IN IF r1.t # "Bt" THEN r1 ELSE IF r2.t # "Bt" THEN r2 ELSE Ok(p, es, <<>>)

\* ws := unicode-space | multi-line-comment
ws(s, p, es) ==
  LET r1 == parse_next("unicode_space", s, p, es)
  IN IF r1.t # "Bt" THEN r1 ELSE parse_next("multi_line_comment", s, p, es)

\* repeat(0.., ws)
wss(s, p, es) ==
  LET r == parse_next("ws", s, p, es)
  IN IF r.t = "Bt" THEN Ok(p, es, <<>>)
     ELSE IF r.t # "Ok" THEN r
     ELSE IF r.pos = p THEN AssertFailed(p, es)
     ELSE parse_next("wss", s, r.pos, es)

\* repeat(1.., ws)
wsp(s, p, es) ==
  LET r == parse_next("ws", s, p, es)
  IN IF r.t # "Ok" THEN r ELSE parse_next("wss", s, r.pos, es)

\* repeat_till(0.., (not(alt((newline, eof))), any), alt((newline, eof)))
CommentRest(s, p, es) ==
  LET nl == parse_next("newline", s, p, es)
  IN IF nl.t = "Ok" THEN nl
     ELSE IF p = Len(s) THEN Ok(p, es, <<>>)
     ELSE parse_next("CommentRest", s, p + 1, es)

single_line_comment(s, p, es) ==
  LET open == literal(s, p, es, <<SLASH, SLASH>>)
  IN IF open.t # "Ok" THEN open ELSE parse_next("CommentRest", s, open.pos, es)

escline(s, p, es) ==
  LET bs == literal(s, p, es, <<BSLASH>>)
      w1 == parse_next("wss", s, bs.pos, es)
      c == parse_next("single_line_comment", s, w1.pos, es)
      nl == parse_next("newline", s, w1.pos, es)
      end == IF c.t = "Ok" THEN c ELSE IF nl.t = "Ok" THEN nl ELSE eof(s, w1.pos, es)
  IN IF bs.t # "Ok" THEN bs
     ELSE IF w1.t # "Ok" THEN w1
     ELSE IF end.t # "Ok" THEN end
     ELSE parse_next("wss", s, end.pos, es)

plain_line_space(s, p, es) ==
  LET nl == parse_next("newline", s, p, es)
      w == parse_next("ws", s, p, es)
  IN IF nl.t = "Ok" THEN nl
     ELSE IF w.t # "Bt" THEN w
     ELSE parse_next("single_line_comment", s, p, es)

plain_node_space(s, p, es) ==
  LET w1 == parse_next("wss", s, p, es)
      esc == IF w1.t # "Ok" THEN w1 ELSE parse_next("escline", s, w1.pos, es)
      br1 == IF esc.t # "Ok" THEN esc ELSE parse_next("wss", s, esc.pos, es)
  IN IF br1.t # "Bt" THEN br1 ELSE parse_next("wsp", s, p, es)

\* repeat(0.., plain_node_space)
plain_node_spaces(s, p, es) ==
  LET r == parse_next("plain_node_space", s, p, es)
  IN IF r.t = "Bt" THEN Ok(p, es, <<>>)
     ELSE IF r.t # "Ok" THEN r
     ELSE IF r.pos = p THEN AssertFailed(p, es)
     ELSE parse_next("plain_node_spaces", s, r.pos, es)

\* repeat(1.., plain_node_space)
plain_node_spaces1(s, p, es) ==
  LET r == parse_next("plain_node_space", s, p, es)
  IN IF r.t # "Ok" THEN r ELSE parse_next("plain_node_spaces", s, r.pos, es)

(***************************************************************************)
(* Identifiers                                                             *)
(***************************************************************************)
equals_sign(s, p, es) == WithValue(literal(s, p, es, <<EQUALS>>), <<>>)

identifier_char(s, p, es) ==
  LET guard == IF parse_next("unicode_space", s, p, es).t = "Ok" THEN parse_next("unicode_space", s, p, es)
               ELSE IF parse_next("newline", s, p, es).t = "Ok" THEN parse_next("newline", s, p, es)
               ELSE IF parse_next("disallowed_unicode", s, p, es).t = "Ok" THEN parse_next("disallowed_unicode", s, p, es)
               ELSE parse_next("equals_sign", s, p, es)
      n == not(guard, p)
  IN IF n.t # "Ok" THEN n ELSE none_of(s, p, es, DISALLOWED_IDENT_CHARS)

\* repeat(0.., identifier_char): the cursor after the run.
identifier_chars(s, p, es) ==
  LET r == parse_next("identifier_char", s, p, es)
  IN IF r.t # "Ok" THEN p ELSE parse_next("identifier_chars", s, r.pos, es)

IsKeywordWord(w) == w \in {KW_true, KW_false, KW_null, KW_inf, KW_neg_inf, KW_nan}

unambiguous_ident(s, p, es) ==
  LET c == At(s, p)
      end == parse_next("identifier_chars", s, p, es)
  IN IF c \in DecDigits \/ c \in {MINUS, PLUS} \/ c = DOT THEN Backtrack(p, es)
     ELSE IF end = p THEN Backtrack(p, es)
     ELSE IF IsKeywordWord(SubSeq(s, p + 1, end)) THEN Backtrack(p, es)
     ELSE Ok(end, es, <<>>)

signed_ident(s, p, es) ==
  IF At(s, p) \notin {PLUS, MINUS} THEN Backtrack(p, es)
  ELSE IF At(s, p + 1) \in DecDigits \/ At(s, p + 1) = DOT THEN Backtrack(p + 1, es)
  ELSE Ok(parse_next("identifier_chars", s, p + 1, es), es, <<>>)

dotted_ident(s, p, es) ==
  LET q == IF At(s, p) \in {PLUS, MINUS} THEN p + 1 ELSE p
  IN IF At(s, q) # DOT THEN Backtrack(q, es)
     ELSE IF At(s, q + 1) \in DecDigits THEN Backtrack(q + 1, es)
     ELSE Ok(parse_next("identifier_chars", s, q + 1, es), es, <<>>)

KdlString(str) == [kind |-> "String", val |-> str]

identifier_string(s, p, es) ==
  LET r1 == parse_next("unambiguous_ident", s, p, es)
      r2 == parse_next("signed_ident", s, p, es)
      r3 == parse_next("dotted_ident", s, p, es)
      r == IF r1.t = "Ok" THEN r1 ELSE IF r2.t = "Ok" THEN r2 ELSE r3
  IN WithValue(r, <<KdlString(SubSeq(s, p + 1, r.pos))>>)

(***************************************************************************)
(* Quoted strings                                                          *)
(***************************************************************************)
\* take_while(1..6, is_hex_digit): the range 1..6 excludes its end.
HexEscapeMin == 1
HexEscapeEnd == 6

RECURSIVE HexValue(_)
HexValue(ds) ==
  IF ds = <<>> THEN 0
  ELSE LET d == ds[Len(ds)]
           v == IF d \in 48..57 THEN d - 48 ELSE IF d \in 65..70 THEN d - 55 ELSE d - 87
       IN 16 * HexValue(SubSeq(ds, 1, Len(ds) - 1)) + v

\* char::from_u32: a Unicode scalar value.
IsScalarValue(n) == n <= 1114111 /\ n \notin 55296..57343

ws_escape(s, p, es) ==
  LET bs == literal(s, p, es, <<BSLASH>>)
      end == RunIn(s, bs.pos, UNICODE_SPACES \cup {NEWLINES[i][1] : i \in 1..Len(NEWLINES)})
  IN IF bs.t # "Ok" THEN bs
     ELSE IF end = bs.pos THEN Backtrack(bs.pos, es)
     ELSE Ok(end, es, <<>>)

escaped_char(s, p, es) ==
  LET bs == literal(s, p, es, <<BSLASH>>)
      q == bs.pos
      c == At(s, q)
      simple == CASE c = BSLASH -> BSLASH
                  [] c = QUOTE -> QUOTE
                  [] c = 98 -> 8
                  [] c = 102 -> FF
                  [] c = 110 -> LF
                  [] c = 114 -> CR
                  [] c = 116 -> TAB
                  [] c = 115 -> SP
                  [] OTHER -> EOF
      unicode(open) ==
        LET run == RunIn(s, open.pos, HexDigits)
            hxEnd == IF run - open.pos > HexEscapeEnd - 1
                     THEN open.pos + HexEscapeEnd - 1 ELSE run
            hx == SubSeq(s, open.pos + 1, hxEnd)
        IN IF open.t # "Ok" THEN context(open, "unicode escape char")
           ELSE IF Len(hx) < HexEscapeMin
                THEN context(Err("Cut", open.pos, es, NoErr), "unicode escape char")
           ELSE IF At(s, hxEnd) # RBRACE
                THEN context(Err("Cut", hxEnd, es, NoErr), "unicode escape char")
           ELSE IF ~IsScalarValue(HexValue(hx)) THEN Backtrack(q, es)
           ELSE Ok(hxEnd + 1, es, HexValue(hx))
  IN IF bs.t # "Ok" THEN bs
     ELSE IF simple # EOF THEN Ok(q + 1, es, simple)
     ELSE unicode(literal(s, q, es, <<117, LBRACE>>))

string_char(s, p, es) ==
  LET r1 == parse_next("escaped_char", s, p, es)
      n == not(parse_next("disallowed_unicode", s, p, es), p)
  IN IF r1.t # "Bt" THEN r1
     ELSE IF n.t # "Ok" THEN n
     ELSE none_of(s, p, es, {BSLASH, QUOTE})

\* (not(newline), opt(ws_escape), string_char).map(|(_, _, s)| s)
QuotedBodyChar(s, p, es) ==
  LET n == not(parse_next("newline", s, p, es), p)
      w == opt(parse_next("ws_escape", s, p, es), p)
  IN IF n.t # "Ok" THEN n ELSE parse_next("string_char", s, w.pos, es)

\* repeat_till(0.., QuotedBodyChar, (repeat(0.., unicode_space).take(), peek("\"")))
\* followed by .map(|(s, (end, _))| format!("{s}{end}"))
RECURSIVE SingleLineBody(_, _, _, _)
SingleLineBody(s, p, es, acc) ==
  LET sp == RunIn(s, p, UNICODE_SPACES)
      f == parse_next("QuotedBodyChar", s, p, es)
  IN IF At(s, sp) = QUOTE THEN Ok(sp, es, acc \o SubSeq(s, p + 1, sp))
     ELSE IF f.t # "Ok" THEN f
     ELSE IF f.pos = p THEN AssertFailed(p, es)
     ELSE SingleLineBody(s, f.pos, es, Append(acc, f.v))

\* repeat(0.., QuotedBodyChar).map(|()| ())
QuotedLineChars(s, p, es) ==
  LET f == parse_next("QuotedBodyChar", s, p, es)
  IN IF f.t = "Bt" THEN Ok(p, es, <<>>)
     ELSE IF f.t # "Ok" THEN f
     ELSE IF f.pos = p THEN AssertFailed(p, es)
     ELSE parse_next("QuotedLineChars", s, f.pos, es)

\* The repeat_till of the ml_prefix lookahead: whole lines up to the line
\* that holds only unicode spaces and the closing quote.
QuotedPrefixScan(s, p, es) ==
  LET sp == RunIn(s, p, UNICODE_SPACES)
      line == parse_next("QuotedLineChars", s, p, es)
      nl == parse_next("newline", s, line.pos, es)
  IN IF At(s, sp) = QUOTE THEN Ok(p, es, <<>>)
     ELSE IF line.t # "Ok" THEN line
     ELSE IF nl.t # "Ok" THEN nl
     ELSE parse_next("QuotedPrefixScan", s, nl.pos, es)

\* repeat_till(0.., QuotedBodyChar, newline).map(|(s, _)| format!("{s}\n"))
RECURSIVE QuotedLineRest(_, _, _, _)
QuotedLineRest(s, p, es, acc) ==
  LET nl == parse_next("newline", s, p, es)
      f == parse_next("QuotedBodyChar", s, p, es)
  IN IF nl.t = "Ok" THEN Ok(nl.pos, es, Append(acc, LF))
     ELSE IF f.t # "Ok" THEN f
     ELSE IF f.pos = p THEN AssertFailed(p, es)
     ELSE QuotedLineRest(s, f.pos, es, Append(acc, f.v))

\* cut_err(alt((&prefix[..], peek(newline).take()))).context(label)
MatchPrefix(s, p, es, prefix, label) ==
  LET pre == literal(s, p, es, prefix)
      nl == peek(parse_next("newline", s, p, es), p)
  IN IF pre.t = "Ok" THEN pre
     ELSE IF nl.t = "Ok" THEN WithValue(nl, <<>>)
     ELSE context(cut_err(nl), label)

\* One line of a multi-line quoted body: the prefix, then the rest of the line.
QuotedLine(s, p, es, prefix) ==
  LET rest_of_line(pre) ==
        LET nl == parse_next("newline", s, pre.pos, es)
        IN IF pre.t # "Ok" THEN pre
           ELSE IF nl.t = "Ok" THEN WithValue(nl, <<LF>>)
           ELSE QuotedLineRest(s, pre.pos, es, <<>>)
  IN rest_of_line(MatchPrefix(s, p, es, prefix, "matching multiline string prefix"))

\* s.truncate(s.len() - 1): the subtraction overflows on an empty string; that
\* panics with overflow checks and wraps without them (truncate then does nothing).
TruncateLast(r) ==
  IF r.t # "Ok" THEN r
  ELSE IF r.v = <<>> THEN (IF build = "debug" THEN Panic(r.pos, r.errs) ELSE r)
  ELSE WithValue(r, SubSeq(r.v, 1, Len(r.v) - 1))

\* repeat_till(0.., QuotedLine, (&prefix[..], repeat(0.., unicode_space).take(), peek("\"")))
RECURSIVE MultiLineBody(_, _, _, _, _)
MultiLineBody(s, p, es, prefix, acc) ==
  LET pre == literal(s, p, es, prefix)
      sp == RunIn(s, pre.pos, UNICODE_SPACES)
      line(f) ==
        IF f.t # "Ok" THEN f
        ELSE IF f.pos = p THEN AssertFailed(p, es)
        ELSE MultiLineBody(s, f.pos, es, prefix, acc \o f.v)
  IN IF pre.t = "Ok" /\ At(s, sp) = QUOTE THEN Ok(sp, es, acc)
     ELSE line(QuotedLine(s, p, es, prefix))

\* (peek("\""), peek(alt((ws, newline, eof.void())))): both look at the same place.
QuotedTerminator(s, p, es) ==
  LET a == peek(literal(s, p, es, <<QUOTE>>), p)
      w == parse_next("ws", s, p, es)
      nl == parse_next("newline", s, p, es)
      b == IF w.t # "Bt" THEN w ELSE IF nl.t = "Ok" THEN nl ELSE eof(s, p, es)
  IN IF a.t # "Ok" THEN a ELSE peek(b, p)

quoted_string_badval(s, p, es) ==
  LET g == parse_next("QuotedTerminator", s, p, es)
      a == any(s, p, es)
  IN IF g.t = "Ok" THEN WithValue(g, <<>>)
     ELSE IF g.t # "Bt" THEN g
     ELSE IF a.t # "Ok" THEN a
     ELSE parse_next("quoted_string_badval", s, a.pos, es)

quoted_string(s, p, es) ==
  LET open == literal(s, p, es, <<QUOTE>>)
      nl == parse_next("newline", s, open.pos, es)
      is_multiline == nl.t = "Ok"
      p1 == IF is_multiline THEN nl.pos ELSE open.pos
      ml_prefix(lastLine) == SubSeq(s, lastLine + 1, RunIn(s, lastLine, UNICODE_SPACES))
      closed(resumed, close) ==
        IF resumed.t # "Ok" THEN resumed
        ELSE IF close.t # "Ok" THEN close
        ELSE Ok(close.pos, close.errs,
                IF resumed.v = <<>> THEN <<>> ELSE <<KdlString(resumed.v[1])>>)
      closing(resumed) ==
        closed(resumed, context(cut_err(literal(s, resumed.pos, resumed.errs, <<QUOTE>>)),
                                "closing quote"))
      multi_line(scan) ==
        IF scan.t # "Ok" THEN peek(scan, p1)
        ELSE closing(resume_after(s, p1,
                       TruncateLast(MultiLineBody(s, p1, es, ml_prefix(scan.pos), <<>>)),
                       "quoted_string_badval"))
  IN IF open.t # "Ok" THEN open
     ELSE IF is_multiline THEN multi_line(parse_next("QuotedPrefixScan", s, p1, es))
     ELSE closing(resume_after(s, p1,
                    context(SingleLineBody(s, p1, es, <<>>), "quoted string"),
                    "quoted_string_badval"))

(***************************************************************************)
(* Raw strings                                                             *)
(***************************************************************************)
\* RawChar with the hashes left out of not(("\"", &hashes[..])).
RawChar_any_quote(s, p, es, closing, checkDisallowed) ==
  IF At(s, p) \in {NEWLINES[i][1] : i \in 1..Len(NEWLINES)} THEN Backtrack(p, es)
  ELSE IF checkDisallowed /\ is_disallowed_unicode(At(s, p)) THEN Backtrack(p, es)
  ELSE IF At(s, p) = QUOTE THEN Backtrack(p, es)
  ELSE any(s, p, es)

\* (not(newline), not(disallowed_unicode), not(("\"", &hashes[..])), any)
RawChar(s, p, es, closing, checkDisallowed) ==
  IF parse_next("newline", s, p, es).t = "Ok" THEN Backtrack(p, es)
  ELSE IF checkDisallowed /\ parse_next("disallowed_unicode", s, p, es).t = "Ok" THEN Backtrack(p, es)
  ELSE IF literal(s, p, es, closing).t = "Ok" THEN Backtrack(p, es)
  ELSE any(s, p, es)

\* repeat(0.., RawChar): the cursor after the run.
RECURSIVE RawLineChars(_, _, _, _, _)
RawLineChars(s, p, es, closing, checkDisallowed) ==
  LET r == RawChar(s, p, es, closing, checkDisallowed)
  IN IF r.t # "Ok" THEN p ELSE RawLineChars(s, r.pos, es, closing, checkDisallowed)

RECURSIVE RawPrefixScan(_, _, _, _)
RawPrefixScan(s, p, es, closing) ==
  LET sp == RunIn(s, p, UNICODE_SPACES)
      line(nl) == IF nl.t # "Ok" THEN nl ELSE RawPrefixScan(s, nl.pos, es, closing)
  IN IF literal(s, sp, es, closing).t = "Ok" THEN Ok(p, es, <<>>)
     ELSE line(parse_next("newline", s, RawLineChars(s, p, es, closing, TRUE), es))

\* One line of a multi-line raw body.
RawLine(s, p, es, prefix, closing) ==
  LET chars(pre, end) ==
        LET endnl == parse_next("newline", s, end, es)
        IN IF endnl.t = "Ok"
           THEN WithValue(endnl, Append(SubSeq(s, pre.pos + 1, end), LF))
           ELSE RawChar(s, end, es, closing, FALSE)
      rest_of_line(pre) ==
        LET nl == parse_next("newline", s, pre.pos, es)
        IN IF pre.t # "Ok" THEN pre
           ELSE IF nl.t = "Ok" THEN WithValue(nl, <<LF>>)
           ELSE chars(pre, RawLineChars(s, pre.pos, es, closing, FALSE))
  IN rest_of_line(MatchPrefix(s, p, es, prefix, "matching multiline raw string prefix"))

RECURSIVE RawMultiLineBody(_, _, _, _, _, _)
RawMultiLineBody(s, p, es, prefix, closing, acc) ==
  LET pre == literal(s, p, es, prefix)
      sp == RunIn(s, pre.pos, UNICODE_SPACES)
      line(f) ==
        IF f.t # "Ok" THEN f
        ELSE IF f.pos = p THEN AssertFailed(p, es)
        ELSE RawMultiLineBody(s, f.pos, es, prefix, closing, acc \o f.v)
  IN IF pre.t = "Ok" /\ literal(s, sp, es, closing).t = "Ok" THEN Ok(sp, es, acc)
     ELSE line(RawLine(s, p, es, prefix, closing))

\* repeat_till(0.., RawChar, peek(("\"", &hashes[..])))
RawSingleLineBody(s, p, es, closing) ==
  LET body(end) ==
        IF literal(s, end, es, closing).t = "Ok" THEN Ok(end, es, SubSeq(s, p + 1, end))
        ELSE RawChar(s, end, es, closing, TRUE)
  IN body(RawLineChars(s, p, es, closing, TRUE))

\* (alt(("#", "\"")), peek(alt((ws, newline, eof.void()))))
RawTerminator(s, p, es) ==
  LET a == one_of(s, p, es, {HASH, QUOTE})
      w == parse_next("ws", s, a.pos, es)
      nl == parse_next("newline", s, a.pos, es)
      b == IF w.t # "Bt" THEN w ELSE IF nl.t = "Ok" THEN nl ELSE eof(s, a.pos, es)
  IN IF a.t # "Ok" THEN a ELSE peek(b, a.pos)

raw_string_badval(s, p, es) ==
  LET g == parse_next("RawTerminator", s, p, es)
      n == none_of(s, p, es, {HASH, QUOTE})
  IN IF g.t = "Ok" THEN WithValue(g, <<>>)
     ELSE IF g.t # "Bt" THEN g
     ELSE IF n.t # "Ok" THEN n
     ELSE parse_next("raw_string_badval", s, n.pos, es)

raw_string(s, p, es) ==
  LET hashEnd == RunIn(s, p, {HASH})
      hashes == <<QUOTE>> \o SubSeq(s, p + 1, hashEnd)
      open == literal(s, hashEnd, es, <<QUOTE>>)
      nl == parse_next("newline", s, open.pos, es)
      is_multiline == nl.t = "Ok"
      p1 == IF is_multiline THEN nl.pos ELSE open.pos
      ml_prefix(lastLine) == SubSeq(s, lastLine + 1, RunIn(s, lastLine, UNICODE_SPACES))
      closed(resumed, close) ==
        IF resumed.t # "Ok" THEN resumed
        ELSE IF close.t # "Ok" THEN close
        ELSE Ok(close.pos, close.errs,
                IF resumed.v = <<>> THEN <<>> ELSE <<KdlString(resumed.v[1])>>)
      closing(resumed) ==
        closed(resumed, context(cut_err(literal(s, resumed.pos, resumed.errs, hashes)),
                                "closing quote"))
      multi_line(scan) ==
        IF scan.t # "Ok" THEN peek(scan, p1)
        ELSE closing(resume_after(s, p1,
                       TruncateLast(RawMultiLineBody(s, p1, es, ml_prefix(scan.pos), hashes, <<>>)),
                       "raw_string_badval"))
  IN IF hashEnd = p THEN Backtrack(p, es)
     ELSE IF open.t # "Ok" THEN open
     ELSE IF is_multiline THEN multi_line(RawPrefixScan(s, p1, es, hashes))
     ELSE closing(resume_after(s, p1,
                    context(RawSingleLineBody(s, p1, es, hashes), "raw string"),
                    "raw_string_badval"))

\* string := identifier-string | raw-string | quoted-string
string(s, p, es) ==
  LET r1 == parse_next("identifier_string", s, p, es)
      r2 == parse_next("raw_string", s, p, r1.errs)
      r3 == parse_next("quoted_string", s, p, r2.errs)
  IN context(IF r1.t # "Bt" THEN r1 ELSE IF r2.t # "Bt" THEN r2 ELSE r3, "string")

\* identifier: a string whose value is a String, with the text it was written as.
identifier(s, p, es) ==
  LET r == parse_next("string", s, p, es)
  IN IF r.t # "Ok" THEN r
     ELSE IF r.v = <<>> \/ r.v[1].kind # "String" THEN Backtrack(p, r.errs)
     ELSE Ok(r.pos, r.errs,
             [value |-> r.v[1].val,
              repr |-> SubSeq(s, p + 1, r.pos),
              span |-> SourceSpan(Location(s, p), Location(s, r.pos))])

(***************************************************************************)
(* Numbers and keywords                                                    *)
(***************************************************************************)
\* The value of a digit character.
DigitValue(c) == IF c \in 48..57 THEN c - 48 ELSE IF c \in 65..70 THEN c - 55 ELSE c - 87

\* str::replace(_, "_", "") and the digits' values, leading zeros dropped:
\* the magnitude from_str_radix and parse::<i128> compute.
RECURSIVE StripUnderscores(_)
StripUnderscores(txt) ==
  IF txt = <<>> THEN <<>>
  ELSE IF txt[1] = UNDERSCORE THEN StripUnderscores(Tail(txt))
  ELSE <<txt[1]>> \o StripUnderscores(Tail(txt))

RECURSIVE DropLeadingZeros(_)
DropLeadingZeros(ds) ==
  IF Len(ds) > 1 /\ ds[1] = 0 THEN DropLeadingZeros(Tail(ds)) ELSE ds

Magnitude(txt) ==
  LET st == StripUnderscores(txt)
  IN DropLeadingZeros([i \in 1..Len(st) |-> DigitValue(st[i])])

\* i128::MAX = 2^127 - 1 in the four radixes, as digit values.
I128Max(radix) ==
  CASE radix = 16 -> <<7>> \o [i \in 1..31 |-> 15]
    [] radix = 8 -> <<1>> \o [i \in 1..42 |-> 7]
    [] radix = 2 -> [i \in 1..127 |-> 1]
    [] radix = 10 -> <<1,7,0,1,4,1,1,8,3,4,6,0,4,6,9,2,3,1,7,3,1,6,8,7,3,0,3,7,1,5,8,8,4,1,0,5,7,2,7>>

RECURSIVE LexGreater(_, _)
LexGreater(a, b) ==
  IF a = <<>> THEN FALSE
  ELSE IF a[1] # b[1] THEN a[1] > b[1]
  ELSE LexGreater(Tail(a), Tail(b))

\* The ParseIntError of from_str_radix / parse::<i128>: the positive overflow.
Overflows(radix, ds) ==
  \/ Len(ds) > Len(I128Max(radix))
  \/ Len(ds) = Len(I128Max(radix)) /\ LexGreater(ds, I128Max(radix))

\* KdlValue::Integer(x * mult): the sign, the radix it was written in and the
\* magnitude's digits.
KdlInteger(mult, ds) ==
  [kind |-> "Integer", val |-> [neg |-> mult = -1 /\ ds # <<0>>, digits |-> ds]]

ParseIntError == [NoErr EXCEPT !.kind = "ParseIntError"]

\* sign: the cursor after an optional sign, and the factor.
SignEnd(s, p) == IF At(s, p) \in {PLUS, MINUS} THEN p + 1 ELSE p
SignMult(s, p) == IF At(s, p) = MINUS THEN -1 ELSE 1

\* DigitsEnd with "_" taken as a first character too.
DigitsEnd_underscore_first(s, p, digits) ==
  IF At(s, p) \in digits \cup {UNDERSCORE} THEN RunIn(s, p, digits \cup {UNDERSCORE}) ELSE p

\* (first digit run, then any of "_" and digit runs): the end of the literal's
\* digits, p itself when the first character is not a digit.
DigitsEnd(s, p, digits) ==
  IF At(s, p) \in digits THEN RunIn(s, p, digits \cup {UNDERSCORE}) ELSE p

\* `integer := digit (digit | '_')*`, value: the magnitude
integer_base(s, p, es) ==
  LET end == DigitsEnd(s, p, DecDigits)
      ds == Magnitude(SubSeq(s, p + 1, end))
  IN IF end = p THEN Backtrack(p, es)
     ELSE IF Overflows(10, ds) THEN Err("Bt", p, es, ParseIntError)
     ELSE Ok(end, es, ds)

integer(s, p, es) ==
  LET r == parse_next("integer_base", s, SignEnd(s, p), es)
  IN context(WithValue(r, KdlInteger(SignMult(s, p), r.v)), "integer")

\* hex, octal: sign, prefix, cut_err(digits), then try_map outside the cut_err.
PrefixedInteger(s, p, es, lower, upper, digits, radix, label) ==
  LET q == SignEnd(s, p)
      number_of(pre, end, ds) ==
        IF pre.t # "Ok" THEN pre
        ELSE IF end = pre.pos THEN context(Err("Cut", pre.pos, es, NoErr), label)
        ELSE IF Overflows(radix, ds) THEN context(Err("Bt", pre.pos, es, ParseIntError), label)
        ELSE Ok(end, es, KdlInteger(SignMult(s, p), ds))
      digits_of(pre, end) == number_of(pre, end, Magnitude(SubSeq(s, pre.pos + 1, end)))
      prefixed(pre) == digits_of(pre, DigitsEnd(s, pre.pos, digits))
  IN prefixed(IF literal(s, q, es, <<48, lower>>).t = "Ok" THEN literal(s, q, es, <<48, lower>>)
              ELSE literal(s, q, es, <<48, upper>>))

hex(s, p, es) == PrefixedInteger(s, p, es, 120, 88, HexDigits, 16, "hexadecimal")

octal(s, p, es) == PrefixedInteger(s, p, es, 111, 79, OctDigits, 8, "octal")

\* binary: the try_map is inside the cut_err.
binary(s, p, es) ==
  LET q == SignEnd(s, p)
      number_of(pre, end, ds) ==
        IF pre.t # "Ok" THEN pre
        ELSE IF end = pre.pos THEN context(Err("Cut", pre.pos, es, NoErr), "binary")
        ELSE IF Overflows(2, ds) THEN context(Err("Cut", pre.pos, es, ParseIntError), "binary")
        ELSE Ok(end, es, KdlInteger(SignMult(s, p), ds))
      digits_of(pre, end) == number_of(pre, end, Magnitude(SubSeq(s, pre.pos + 1, end)))
      prefixed(pre) == digits_of(pre, DigitsEnd(s, pre.pos, {48, 49}))
  IN prefixed(IF literal(s, q, es, <<48, 98>>).t = "Ok" THEN literal(s, q, es, <<48, 98>>)
              ELSE literal(s, q, es, <<48, 66>>))

\* The two shapes of a float; the value is the text without its underscores,
\* which parse::<f64> accepts whenever the shape matched.
float(s, p, es) ==
  LET int == parse_next("integer", s, p, es)
      hasDot == At(s, int.pos) = DOT
      frac == cut_err(parse_next("integer_base", s, int.pos + 1, es))
      afterFrac == IF hasDot THEN frac.pos ELSE int.pos
      hasExp == At(s, afterFrac) \in {101, 69}
      expStart == IF At(s, afterFrac + 1) \in {MINUS, PLUS} THEN afterFrac + 2 ELSE afterFrac + 1
      exp == cut_err(parse_next("integer_base", s, expStart, es))
      first == IF int.t # "Ok" THEN int
               ELSE IF hasDot /\ frac.t # "Ok" THEN frac
               ELSE IF ~hasExp THEN Backtrack(afterFrac, es)
               ELSE exp
      second == IF int.t # "Ok" THEN int
                ELSE IF ~hasDot THEN Backtrack(int.pos, es)
                ELSE frac
      r == IF first.t # "Bt" THEN first ELSE second
  IN context(WithValue(r, [kind |-> "Float",
                           val |-> StripUnderscores(SubSeq(s, p + 1, r.pos))]), "float")

\* number := hex | octal | binary | float | integer
number(s, p, es) ==
  LET r1 == parse_next("hex", s, p, es)
      r2 == parse_next("octal", s, p, es)
      r3 == parse_next("binary", s, p, es)
      r4 == parse_next("float", s, p, es)
  IN IF r1.t # "Bt" THEN r1
     ELSE IF r2.t # "Bt" THEN r2
     ELSE IF r3.t # "Bt" THEN r3
     ELSE IF r4.t # "Bt" THEN r4
     ELSE parse_next("integer", s, p, es)

\* Caseless(word): ASCII letters compare without case.
Lower(c) == IF c \in 65..90 THEN c + 32 ELSE c

Caseless(s, p, es, word) ==
  IF p + Len(word) <= Len(s) /\ \A i \in 1..Len(word) : Lower(s[p + i]) = word[i]
  THEN Ok(p + Len(word), es, <<>>)
  ELSE Backtrack(p, es)

KeywordValues ==
  << <<KW_true, [kind |-> "Bool", val |-> TRUE]>>,
     <<KW_false, [kind |-> "Bool", val |-> FALSE]>>,
     <<KW_null, [kind |-> "Null", val |-> <<>>]>>,
     <<KW_nan, [kind |-> "Float", val |-> KW_nan]>>,
     <<KW_inf, [kind |-> "Float", val |-> KW_inf]>>,
     <<KW_neg_inf, [kind |-> "Float", val |-> KW_neg_inf]>> >>

RECURSIVE KeywordFrom(_, _, _, _)
KeywordFrom(s, p, es, i) ==
  IF i > Len(KeywordValues) THEN Backtrack(p, es)
  ELSE LET r == Caseless(s, p, es, KeywordValues[i][1])
       IN IF r.t = "Ok" THEN WithValue(r, KeywordValues[i][2])
          ELSE KeywordFrom(s, p, es, i + 1)

keyword(s, p, es) ==
  LET h == literal(s, p, es, <<HASH>>)
  IN IF h.t # "Ok" THEN h
     ELSE IF At(s, h.pos) \in {HASH, QUOTE} THEN Backtrack(h.pos, es)
     ELSE context(cut_err(KeywordFrom(s, h.pos, es, 1)), "keyword")

(***************************************************************************)
(* Values, entries, nodes                                                  *)
(***************************************************************************)
\* node-terminator := single-line-comment | newline | ';' | eof
node_terminator(s, p, es) ==
  LET semi == literal(s, p, es, <<SEMI>>)
      nl == parse_next("newline", s, p, es)
  IN IF p = Len(s) THEN Ok(p, es, <<>>)
     ELSE IF semi.t = "Ok" THEN WithValue(semi, <<>>)
     ELSE IF nl.t = "Ok" THEN nl
     ELSE parse_next("single_line_comment", s, p, es)

\* alt((ws, node_terminator.void(), "{".void(), "}".void()))
BadvalStop(s, p, es) ==
  LET w == parse_next("ws", s, p, es)
      nt == parse_next("node_terminator", s, p, es)
      lb == literal(s, p, es, <<LBRACE>>)
  IN IF w.t # "Bt" THEN w
     ELSE IF nt.t = "Ok" THEN nt
     ELSE IF lb.t = "Ok" THEN lb
     ELSE literal(s, p, es, <<RBRACE>>)

\* Consumes the rest of a value, up to whitespace, a node terminator or a brace.
badval(s, p, es) ==
  LET stop == peek(parse_next("BadvalStop", s, p, es), p)
  IN IF p = Len(s) THEN Ok(p, es, <<>>)
     ELSE IF stop.t # "Bt" THEN WithValue(stop, <<>>)
     ELSE parse_next("badval", s, p + 1, es)


\* optional-node-space := node-space*
optional_node_space(s, p, es) ==
  LET r == parse_next("node_space", s, p, es)
  IN IF r.t = "Bt" THEN Ok(p, r.errs, <<>>)
     ELSE IF r.t # "Ok" THEN r
     ELSE IF r.pos = p THEN AssertFailed(p, r.errs)
     ELSE parse_next("optional_node_space", s, r.pos, r.errs)

\* repeat(0.., (node_space, peek(plain_node_space)))
NodeSpacesBeforePlain(s, p, es) ==
  LET r == parse_next("node_space", s, p, es)
      pk == peek(parse_next("plain_node_space", s, r.pos, r.errs), r.pos)
      f == IF r.t # "Ok" THEN r ELSE pk
  IN IF f.t = "Bt" THEN Ok(p, f.errs, <<>>)
     ELSE IF f.t # "Ok" THEN f
     ELSE IF f.pos = p THEN AssertFailed(p, f.errs)
     ELSE parse_next("NodeSpacesBeforePlain", s, f.pos, f.errs)

\* required-node-space := node-space* plain-node-space+
required_node_space(s, p, es) ==
  LET r == parse_next("NodeSpacesBeforePlain", s, p, es)
  IN IF r.t # "Ok" THEN r ELSE parse_next("plain_node_spaces1", s, r.pos, r.errs)

\* The recovery parser of ty: (badval, peek(")").void(), badval)
TyRecover(s, p, es) ==
  LET b1 == parse_next("badval", s, p, es)
      pk == peek(literal(s, b1.pos, es, <<RPAREN>>), b1.pos)
  IN IF b1.t # "Ok" THEN b1
     ELSE IF pk.t # "Ok" THEN pk
     ELSE parse_next("badval", s, b1.pos, es)

\* type := '(' optional-node-space string optional-node-space ')'
\* value: [before_ty, ty, after_ty]
ty(s, p, es) ==
  LET open == literal(s, p, es, <<LPAREN>>)
      before == take(s, open.pos, parse_next("optional_node_space", s, open.pos, es))
      closed(name, after) ==
        IF name.t # "Ok" THEN name
        ELSE IF after.t # "Ok" THEN after
        ELSE WithValue(cut_err(literal(s, after.pos, after.errs, <<RPAREN>>)),
                       [before_ty |-> before.v, ty |-> name.v, after_ty |-> after.v])
      named(name) ==
        closed(name, take(s, name.pos, parse_next("optional_node_space", s, name.pos, name.errs)))
  IN IF open.t # "Ok" THEN open
     ELSE IF before.t # "Ok" THEN before
     ELSE named(resume_after(s, before.pos,
                  cut_err(context(parse_next("identifier", s, before.pos, before.errs),
                                  "type name")),
                  "TyRecover"))

NoTy == [before_ty |-> <<>>, ty |-> <<>>, after_ty |-> <<>>]

KdlEntryFormat ==
  [leading |-> <<>>, trailing |-> <<>>, value_repr |-> <<>>, after_ty |-> <<>>,
   before_ty_name |-> <<>>, after_ty_name |-> <<>>, after_eq |-> <<>>]

\* value := type? optional-node-space (string | number | keyword)
\* value: an Option of a KdlEntry
value(s, p, es) ==
  LET t == parse_next("ty", s, p, es)
      sp == take(s, t.pos, parse_next("optional_node_space", s, t.pos, t.errs))
      entry_of(typed, val) ==
        LET tyv == IF typed.v = <<>> THEN NoTy ELSE typed.v[1].ty
            after_ty == IF typed.v = <<>> THEN <<>> ELSE typed.v[1].after
        IN IF typed.t # "Ok" THEN typed
           ELSE IF val.t # "Ok" THEN val
           ELSE IF val.v = <<>> THEN val
           ELSE WithValue(val,
                  << [ty |-> tyv.ty,
                      value |-> val.v[1],
                      name |-> <<>>,
                      format |-> [KdlEntryFormat EXCEPT
                                    !.value_repr = SubSeq(s, typed.pos + 1, val.pos),
                                    !.after_ty = after_ty,
                                    !.before_ty_name = tyv.before_ty,
                                    !.after_ty_name = tyv.after_ty],
                      span |-> SourceSpan(Location(s, p), Location(s, val.pos))] >>)
      one_of_values(q, es1) ==
        LET kw == parse_next("keyword", s, q, es1)
            num == parse_next("number", s, q, kw.errs)
            str == parse_next("string", s, q, num.errs)
        IN IF kw.t # "Bt" THEN WithValue(kw, <<kw.v>>)
           ELSE IF num.t # "Bt" THEN WithValue(num, <<num.v>>)
           ELSE str
      typed_value(typed) == entry_of(typed, one_of_values(typed.pos, typed.errs))
  IN typed_value(opt(IF t.t # "Ok" THEN t ELSE WithValue(sp, [ty |-> t.v, after |-> sp.v]), p))

\* prop := string optional-node-space equals-sign optional-node-space value
prop(s, p, es) ==
  LET assigned(key, after_key, after_eq, val) ==
        IF val.t # "Ok" THEN val
        ELSE IF val.v = <<>> THEN val
        ELSE WithValue(val,
               << [val.v[1] EXCEPT
                     !.name = <<key.v>>,
                     !.format.after_ty = after_key.v,
                     !.format.after_eq = after_eq.v,
                     !.span = SourceSpan(Location(s, p), Location(s, val.pos))] >>)
      after_equals(key, after_key, eq) ==
        LET after_eq == take(s, eq.pos, parse_next("optional_node_space", s, eq.pos, eq.errs))
        IN IF eq.t # "Ok" THEN eq
           ELSE IF after_eq.t # "Ok" THEN after_eq
           ELSE assigned(key, after_key, after_eq,
                         cut_err(parse_next("value", s, after_eq.pos, after_eq.errs)))
      keyed(key) ==
        LET after_key == take(s, key.pos, parse_next("optional_node_space", s, key.pos, key.errs))
        IN IF key.t # "Ok" THEN key
           ELSE IF after_key.t # "Ok" THEN after_key
           ELSE after_equals(key, after_key,
                             parse_next("equals_sign", s, after_key.pos, after_key.errs))
  IN keyed(parse_next("identifier", s, p, es))

\* node-prop-or-arg := prop | value, after its leading node space
node_entry(s, p, es) ==
  LET leading == take(s, p, parse_next("optional_node_space", s, p, es))
      pr == parse_next("prop", s, leading.pos, leading.errs)
      va == parse_next("value", s, leading.pos, pr.errs)
      e == IF pr.t # "Bt" THEN pr ELSE va
  IN IF leading.t # "Ok" THEN leading
     ELSE IF e.t # "Ok" \/ e.v = <<>> THEN e
     ELSE WithValue(e, << [e.v[1] EXCEPT !.format.leading = leading.v] >>)

\* node_space without its slashdash part.
node_space_plain(s, p, es) == parse_next("plain_node_spaces1", s, p, es)

\* node-space := plain-node-space+ ('/-' plain-node-space* (node-prop-or-arg | node-children))?
node_space(s, p, es) ==
  LET sp == parse_next("plain_node_spaces1", s, p, es)
      sd == literal(s, sp.pos, es, <<SLASH, MINUS>>)
      sp2 == parse_next("plain_node_spaces", s, sd.pos, es)
      ent == context(parse_next("node_entry", s, sp2.pos, es), "slashdashed entry")
      chl == context(parse_next("node_children", s, sp2.pos, ent.errs), "slashdashed children")
      item == cut_err(IF ent.t # "Bt" THEN ent ELSE chl)
      dashed == opt(IF sd.t # "Ok" THEN sd ELSE IF sp2.t # "Ok" THEN sp2 ELSE item, sp.pos)
  IN IF sp.t # "Ok" THEN sp ELSE WithValue(dashed, <<>>)

\* repeat(0.., (peek(required_node_space), node_entry)) and the flattening map
RECURSIVE NodeEntries(_, _, _, _)
NodeEntries(s, p, es, acc) ==
  LET pk == peek(parse_next("required_node_space", s, p, es), p)
      f == IF pk.t # "Ok" THEN pk ELSE parse_next("node_entry", s, p, pk.errs)
  IN IF f.t = "Bt" THEN Ok(p, f.errs, acc)
     ELSE IF f.t # "Ok" THEN f
     ELSE IF f.pos = p THEN AssertFailed(p, f.errs)
     ELSE NodeEntries(s, f.pos, f.errs, acc \o f.v)

KdlNodeFormat ==
  [leading |-> <<>>, trailing |-> <<>>, after_ty |-> <<>>, before_ty_name |-> <<>>,
   after_ty_name |-> <<>>, before_children |-> <<>>]

\* base-node := type? optional-node-space string (required-node-space node-prop-or-arg)*
\*              (required-node-space node-children)?
\* `consumed` is not a field of KdlNode: it records the cursor range the node's
\* parser consumed, for the properties that speak of it.
base_node(s, p, es) ==
  LET t == opt(parse_next("ty", s, p, es), p)
      after_ty == take(s, t.pos, parse_next("optional_node_space", s, t.pos, t.errs))
      tyv == IF t.v = <<>> THEN NoTy ELSE t.v[1]
      built(name, entries, bc, children) ==
        WithValue(children,
          [ty |-> tyv.ty,
           name |-> name.v,
           entries |-> entries.v,
           children |-> children.v,
           format |-> [KdlNodeFormat EXCEPT
                         !.after_ty = after_ty.v,
                         !.before_ty_name = tyv.before_ty,
                         !.after_ty_name = tyv.after_ty,
                         !.before_children =
                            IF children.v = <<>> THEN <<>> ELSE bc.v],
           span |-> SourceSpan(Location(s, p), Location(s, children.pos)),
           consumed |-> <<p, children.pos>>])
      with_children(name, entries, bc) ==
        built(name, entries, bc,
              opt(IF bc.t # "Ok" THEN bc ELSE parse_next("node_children", s, bc.pos, bc.errs),
                  entries.pos))
      with_entries(name, entries) ==
        IF entries.t # "Ok" THEN entries
        ELSE with_children(name, entries,
               take(s, entries.pos,
                    parse_next("optional_node_space", s, entries.pos, entries.errs)))
      named(name) ==
        IF name.t # "Ok" THEN name
        ELSE with_entries(name, NodeEntries(s, name.pos, name.errs, <<>>))
  IN IF t.t # "Ok" THEN t
     ELSE IF after_ty.t # "Ok" THEN after_ty
     ELSE named(parse_next("identifier", s, after_ty.pos, after_ty.errs))

\* line-space := plain-line-space+ | '/-' plain-node-space* node
PlainLineSpaces(s, p, es) ==
  LET r == parse_next("plain_line_space", s, p, es)
  IN IF r.t = "Bt" THEN Ok(p, es, <<>>)
     ELSE IF r.t # "Ok" THEN r
     ELSE IF r.pos = p THEN AssertFailed(p, es)
     ELSE parse_next("PlainLineSpaces", s, r.pos, es)

line_space(s, p, es) ==
  LET first == parse_next("plain_line_space", s, p, es)
      plain == IF first.t # "Ok" THEN first ELSE parse_next("PlainLineSpaces", s, first.pos, es)
      sd == literal(s, p, es, <<SLASH, MINUS>>)
      sp == parse_next("plain_node_spaces", s, sd.pos, es)
      n == cut_err(parse_next("node", s, sp.pos, es))
      dashed == IF sd.t # "Ok" THEN sd ELSE IF sp.t # "Ok" THEN sp ELSE WithValue(n, <<>>)
  IN IF plain.t # "Bt" THEN plain ELSE context(dashed, "slashdashed node")

\* repeat(0.., line_space)
line_spaces(s, p, es) ==
  LET r == parse_next("line_space", s, p, es)
  IN IF r.t = "Bt" THEN Ok(p, r.errs, <<>>)
     ELSE IF r.t # "Ok" THEN r
     ELSE IF r.pos = p THEN AssertFailed(p, r.errs)
     ELSE parse_next("line_spaces", s, r.pos, r.errs)

\* node := base-node optional-node-space node-terminator, after its leading line space
node(s, p, es) ==
  LET leading == take(s, p, parse_next("line_spaces", s, p, es))
      base == parse_next("base_node", s, leading.pos, leading.errs)
      trailing == take(s, base.pos, parse_next("optional_node_space", s, base.pos, base.errs))
      terminator == take(s, trailing.pos, parse_next("node_terminator", s, trailing.pos, trailing.errs))
  IN IF leading.t # "Ok" THEN leading
     ELSE IF base.t # "Ok" THEN base
     ELSE IF trailing.t # "Ok" THEN trailing
     ELSE WithValue(terminator,
            [base.v EXCEPT !.format.leading = leading.v,
                           !.format.trailing = trailing.v \o terminator.v,
                           !.consumed = <<p, terminator.pos>>])

\* repeat(0.., node)
RECURSIVE NodeList(_, _, _, _)
NodeList(s, p, es, acc) ==
  LET r == parse_next("node", s, p, es)
  IN IF r.t = "Bt" THEN Ok(p, r.errs, acc)
     ELSE IF r.t # "Ok" THEN r
     ELSE IF r.pos = p THEN AssertFailed(p, r.errs)
     ELSE NodeList(s, r.pos, r.errs, Append(acc, r.v))

\* nodes := (line-space* node)* line-space*
nodes(s, p, es) ==
  LET leading == take(s, p, parse_next("line_spaces", s, p, es))
      ns == NodeList(s, leading.pos, leading.errs, <<>>)
      trailing == take(s, ns.pos, parse_next("line_spaces", s, ns.pos, ns.errs))
  IN IF leading.t # "Ok" THEN leading
     ELSE IF ns.t # "Ok" THEN ns
     ELSE WithValue(trailing,
            [nodes |-> ns.v,
             format |-> [leading |-> leading.v, trailing |-> trailing.v],
             span |-> SourceSpan(Location(s, p), Location(s, trailing.pos))])

\* final-node := base-node optional-node-space node-terminator?
final_node(s, p, es) ==
  LET base == parse_next("base_node", s, p, es)
      sp == parse_next("optional_node_space", s, base.pos, base.errs)
      nt == opt(parse_next("node_terminator", s, sp.pos, sp.errs), sp.pos)
  IN IF base.t # "Ok" THEN base
     ELSE IF sp.t # "Ok" THEN sp
     ELSE WithValue(nt, [base.v EXCEPT !.consumed = <<p, nt.pos>>])

\* node-children := '{' nodes final-node? '}'
node_children(s, p, es) ==
  LET open == literal(s, p, es, <<LBRACE>>)
      ns == parse_next("nodes", s, open.pos, es)
      fin == opt(parse_next("final_node", s, ns.pos, ns.errs), ns.pos)
      close == cut_err(literal(s, fin.pos, fin.errs, <<RBRACE>>))
  IN IF open.t # "Ok" THEN open
     ELSE IF ns.t # "Ok" THEN ns
     ELSE IF fin.t # "Ok" THEN fin
     ELSE WithValue(close,
            [ns.v EXCEPT !.nodes = ns.v.nodes \o fin.v,
                         !.span = SourceSpan(Location(s, p), Location(s, close.pos))])

\* document := bom? nodes
document(s, p, es) ==
  LET b == opt(literal(s, p, es, <<BOM>>), p)
      doc == parse_next("nodes", s, b.pos, es)
  IN IF doc.t # "Ok" THEN doc
     ELSE WithValue(doc, [doc.v EXCEPT !.format.leading = SubSeq(s, p + 1, b.pos) \o @])

\* repeat(0.., alt((line_space, node_space)))
LineOrNodeSpaces(s, p, es) ==
  LET l == parse_next("line_space", s, p, es)
      r == IF l.t # "Bt" THEN l ELSE parse_next("node_space", s, p, l.errs)
  IN IF r.t = "Bt" THEN Ok(p, r.errs, <<>>)
     ELSE IF r.t # "Ok" THEN r
     ELSE IF r.pos = p THEN AssertFailed(p, r.errs)
     ELSE parse_next("LineOrNodeSpaces", s, r.pos, r.errs)

padded_node(s, p, es) ==
  LET leading == take(s, p, parse_next("LineOrNodeSpaces", s, p, es))
      n == parse_next("node", s, leading.pos, leading.errs)
      trailing == take(s, n.pos, parse_next("LineOrNodeSpaces", s, n.pos, n.errs))
  IN IF leading.t # "Ok" THEN leading
     ELSE IF n.t # "Ok" THEN n
     ELSE WithValue(trailing,
            [n.v EXCEPT !.format.leading = leading.v \o @,
                        !.format.trailing = @ \o trailing.v,
                        !.span = SourceSpan(Location(s, p), Location(s, trailing.pos)),
                        !.consumed = <<p, trailing.pos>>])

padded_node_entry(s, p, es) ==
  LET leading == take(s, p, parse_next("line_spaces", s, p, es))
      e == parse_next("node_entry", s, leading.pos, leading.errs)
      trailing == take(s, e.pos, parse_next("LineOrNodeSpaces", s, e.pos, e.errs))
  IN IF leading.t # "Ok" THEN leading
     ELSE IF e.t # "Ok" THEN e
     ELSE IF trailing.t # "Ok" THEN trailing
     ELSE IF e.v = <<>> THEN Backtrack(trailing.pos, trailing.errs)
     ELSE WithValue(trailing,
            [e.v[1] EXCEPT !.format.leading = leading.v \o @,
                           !.format.trailing = @ \o trailing.v,
                           !.span = SourceSpan(Location(s, p), Location(s, trailing.pos))])

\* Parser::parse_next: the parser named `name` run at cursor p with the
\* recorded errors es.
parse_next(name, s, p, es) ==
  CASE name = "newline" -> newline(s, p, es)
    [] name = "unicode_space" -> unicode_space(s, p, es)
    [] name = "string_char" -> string_char(s, p, es)
    [] name = "identifier_char" -> identifier_char(s, p, es)
    [] name = "ws" -> ws(s, p, es)
    [] name = "disallowed_unicode" -> disallowed_unicode(s, p, es)
    [] name = "ws_escape" -> ws_escape(s, p, es)
    [] name = "escaped_char" -> escaped_char(s, p, es)
    [] name = "QuotedBodyChar" -> QuotedBodyChar(s, p, es)
    [] name = "plain_node_space" -> plain_node_space(s, p, es)
    [] name = "plain_line_space" -> plain_line_space(s, p, es)
    [] name = "node_space" -> node_space(s, p, es)
    [] name = "line_space" -> line_space(s, p, es)
    [] name = "optional_node_space" -> optional_node_space(s, p, es)
    [] name = "required_node_space" -> required_node_space(s, p, es)
    [] name = "node_terminator" -> node_terminator(s, p, es)
    [] name = "commented_block" -> commented_block(s, p, es)
    [] name = "multi_line_comment" -> multi_line_comment(s, p, es)
    [] name = "wss" -> wss(s, p, es)
    [] name = "wsp" -> wsp(s, p, es)
    [] name = "CommentRest" -> CommentRest(s, p, es)
    [] name = "single_line_comment" -> single_line_comment(s, p, es)
    [] name = "escline" -> escline(s, p, es)
    [] name = "plain_node_spaces" -> plain_node_spaces(s, p, es)
    [] name = "plain_node_spaces1" -> plain_node_spaces1(s, p, es)
    [] name = "equals_sign" -> equals_sign(s, p, es)
    [] name = "identifier_chars" -> identifier_chars(s, p, es)
    [] name = "unambiguous_ident" -> unambiguous_ident(s, p, es)
    [] name = "signed_ident" -> signed_ident(s, p, es)
    [] name = "dotted_ident" -> dotted_ident(s, p, es)
    [] name = "identifier_string" -> identifier_string(s, p, es)
    [] name = "QuotedLineChars" -> QuotedLineChars(s, p, es)
    [] name = "QuotedPrefixScan" -> QuotedPrefixScan(s, p, es)
    [] name = "QuotedTerminator" -> QuotedTerminator(s, p, es)
    [] name = "quoted_string_badval" -> quoted_string_badval(s, p, es)
    [] name = "quoted_string" -> quoted_string(s, p, es)
    [] name = "RawTerminator" -> RawTerminator(s, p, es)
    [] name = "raw_string_badval" -> raw_string_badval(s, p, es)
    [] name = "raw_string" -> raw_string(s, p, es)
    [] name = "string" -> string(s, p, es)
    [] name = "identifier" -> identifier(s, p, es)
    [] name = "integer_base" -> integer_base(s, p, es)
    [] name = "integer" -> integer(s, p, es)
    [] name = "hex" -> hex(s, p, es)
    [] name = "octal" -> octal(s, p, es)
    [] name = "binary" -> binary(s, p, es)
    [] name = "float" -> float(s, p, es)
    [] name = "number" -> number(s, p, es)
    [] name = "keyword" -> keyword(s, p, es)
    [] name = "BadvalStop" -> BadvalStop(s, p, es)
    [] name = "badval" -> badval(s, p, es)
    [] name = "NodeSpacesBeforePlain" -> NodeSpacesBeforePlain(s, p, es)
    [] name = "TyRecover" -> TyRecover(s, p, es)
    [] name = "ty" -> ty(s, p, es)
    [] name = "value" -> value(s, p, es)
    [] name = "prop" -> prop(s, p, es)
    [] name = "node_entry" -> node_entry(s, p, es)
    [] name = "base_node" -> base_node(s, p, es)
    [] name = "PlainLineSpaces" -> PlainLineSpaces(s, p, es)
    [] name = "line_spaces" -> line_spaces(s, p, es)
    [] name = "node" -> node(s, p, es)
    [] name = "nodes" -> nodes(s, p, es)
    [] name = "final_node" -> final_node(s, p, es)
    [] name = "node_children" -> node_children(s, p, es)
    [] name = "document" -> document(s, p, es)
    [] name = "LineOrNodeSpaces" -> LineOrNodeSpaces(s, p, es)
    [] name = "padded_node" -> padded_node(s, p, es)
    [] name = "padded_node_entry" -> padded_node_entry(s, p, es)
    [] name = "rest" -> rest(s, p, es)

(***************************************************************************)
(* try_parse                                                               *)
(***************************************************************************)
\* Parser::recoverable_parse: the parser, then eof.resume_after(rest); an
\* error the parser returns is pushed last.  r is the parser's result.
\* The result is [panic, maybe_val, errs].
recoverable_parse(s, r) ==
  LET end == resume_after(s, r.pos, eof(s, r.pos, r.errs), "rest")
  IN IF r.t = "Panic" THEN [panic |-> TRUE, maybe_val |-> <<>>, errs |-> r.errs]
     ELSE IF r.t = "Ok"
          THEN [panic |-> FALSE, maybe_val |-> <<r.v>>, errs |-> end.errs]
          ELSE [panic |-> FALSE, maybe_val |-> <<>>,
                errs |-> Append(r.errs, from_recoverable_error(s, 0, r.pos, r.e))]

KdlDiagnostic(s, e) ==
  [input |-> s,
   span |-> IF e.span = <<>> THEN SourceSpan(0, 0) ELSE e.span[1],
   label |-> <<>>,
   help |-> <<>>,
   severity |-> "Error",
   kind |-> IF e.context # <<>> THEN <<"Context", e.context[1]>> ELSE <<"Other">>]

\* failure_from_errs with the diagnostics in the opposite order.
failure_from_errs_reversed(errs, s) ==
  [input |-> s,
   diagnostics |-> [i \in 1..Len(errs) |-> KdlDiagnostic(s, errs[Len(errs) + 1 - i])]]

failure_from_errs(errs, s) ==
  [input |-> s, diagnostics |-> [i \in 1..Len(errs) |-> KdlDiagnostic(s, errs[i])]]

NoFailure == [input |-> <<>>, diagnostics |-> <<>>]

\* try_parse without the errs.is_empty() test of its condition.
try_parse_value_only(name, s) ==
  LET result(r, rp) ==
        IF rp.panic
        THEN [kind |-> "Panic", value |-> <<>>, failure |-> NoFailure, parsed |-> r]
        ELSE IF rp.maybe_val # <<>>
        THEN [kind |-> "Ok", value |-> rp.maybe_val, failure |-> NoFailure, parsed |-> r]
        ELSE [kind |-> "Err", value |-> <<>>, failure |-> failure_from_errs(rp.errs, s),
              parsed |-> r]
      recovered(r) == result(r, recoverable_parse(s, r))
  IN recovered(parse_next(name, s, 0, <<>>))

\* try_parse(parser, input).  `parsed` keeps the parser's own result, for the
\* properties that speak of it.
try_parse(name, s) ==
  LET result(r, rp) ==
        IF rp.panic
        THEN [kind |-> "Panic", value |-> <<>>, failure |-> NoFailure, parsed |-> r]
        ELSE IF rp.maybe_val # <<>> /\ rp.errs = <<>>
        THEN [kind |-> "Ok", value |-> rp.maybe_val, failure |-> NoFailure, parsed |-> r]
        ELSE [kind |-> "Err", value |-> <<>>, failure |-> failure_from_errs(rp.errs, s),
              parsed |-> r]
      recovered(r) == result(r, recoverable_parse(s, r))
  IN recovered(parse_next(name, s, 0, <<>>))

NoOutcome == [kind |-> "None", value |-> <<>>, failure |-> NoFailure, parsed |-> <<>>]

\* A call of try_parse with the parser `name`.
Call(name) ==
  /\ pc = "ready"
  /\ pc' = "done"
  /\ entry' = name
  /\ outcome' = try_parse(name, input)
  /\ UNCHANGED <<input, build>>

\* parse::<KdlDocument>(), parse::<KdlNode>(), parse::<KdlEntry>() and the
\* string parsers the unit tests call.
ParseDocument == Call("document")
ParseNode == Call("padded_node")
ParseEntry == Call("padded_node_entry")
ParseString == Call("string")
ParseIdentifier == Call("identifier")
ParseNumber == Call("number")
ParseHex == Call("hex")
ParseComment == Call("multi_line_comment")
ParseQuotedBadval == Call("quoted_string_badval")
ParseRawBadval == Call("raw_string_badval")

(***************************************************************************)
(* Inputs                                                                  *)
(***************************************************************************)
Builds == {"debug", "release"}

Letter_a == <<97>>
Letter_x == <<120>>

RECURSIVE Repeat(_, _)
Repeat(txt, n) == IF n = 0 THEN <<>> ELSE txt \o Repeat(txt, n - 1)

\* The concatenations of at most n members of frags.
RECURSIVE Concats(_, _)
Concats(frags, n) ==
  IF n = 0 THEN {<<>>}
  ELSE LET prev == Concats(frags, n - 1)
       IN prev \cup {x \o f : x \in prev, f \in frags}

\* Documents: every text of at most MaxFrags fragments, and every pair of
\* nodes, sound or erroneous, on two lines.
MaxFrags == 5
DocFrags == {Letter_a, <<SP>>, <<SEMI>>, <<LBRACE>>, <<RBRACE>>}

BadEscape == <<QUOTE, BSLASH, 113, QUOTE>>
BadPrefix == <<QUOTE, LF, SP, 120, LF, SP, SP, QUOTE>>
BadRaw == <<HASH, QUOTE, 127, 0, QUOTE, SP>>
BadType == <<LPAREN, RPAREN, 97>>
BadStrings == {BadEscape, BadPrefix, BadRaw}
GoodNodes == {Letter_a, <<97, SP, 49>>, <<LPAREN, 120, RPAREN, 97>>,
              <<97, SP, 120, EQUALS, QUOTE, QUOTE>>}
BadNodes == BadStrings \cup {Letter_a \o <<SP>> \o b : b \in BadStrings} \cup {BadType}
PairDocs ==
  {x \o nl \o y : x \in GoodNodes \cup BadNodes, y \in GoodNodes \cup BadNodes,
                  nl \in {<<LF>>, <<CR, LF>>}}
DocInputs == Concats(DocFrags, MaxFrags) \cup PairDocs

\* Identifier words: the keyword words and their neighbours.
Words == {KW_true, KW_false, KW_null, KW_inf, KW_nan, Letter_a, <<116, 114, 117>>}
WordPrefixes == {<<>>, <<MINUS>>, <<PLUS>>, <<DOT>>, Letter_x}
WordSuffixes == {<<>>, Letter_x, <<SP>>, <<EQUALS>>}
IdentInputs == {a \o w \o b : a \in WordPrefixes, w \in Words, b \in WordSuffixes}

\* Multi-line strings: an opening newline, at most MaxLines interior lines
\* indented by at most MaxIndent spaces or empty, each ended by the same
\* newline, and a closing line of at most MaxIndent spaces; quoted and raw.
MaxLines == 2
MaxIndent == 2
Spaces(n) == Repeat(<<SP>>, n)
LineTexts == {<<>>, <<SP>>} \cup {Spaces(i) \o Letter_x : i \in 0..MaxIndent}
RECURSIVE LinesOf(_, _)
LinesOf(nl, n) ==
  IF n = 0 THEN {<<>>}
  ELSE LET prev == LinesOf(nl, n - 1)
       IN prev \cup {x \o l \o nl : x \in prev, l \in LineTexts}
MLBodies ==
  UNION {{NEWLINES[k] \o ls \o Spaces(i) : ls \in LinesOf(NEWLINES[k], MaxLines),
                                           i \in 0..MaxIndent}
         : k \in 1..Len(NEWLINES)}
MLInputs ==
  {<<QUOTE>> \o b \o <<QUOTE>> : b \in MLBodies}
    \cup {<<HASH, QUOTE>> \o b \o <<QUOTE, HASH>> : b \in MLBodies}

\* Quoted strings with whitespace escapes: every body of at most MaxBody
\* characters of x, backslash, space and newline.
MaxBody == 4
EscInputs ==
  {<<QUOTE>> \o b \o <<QUOTE>>
     : b \in Concats({Letter_x, <<BSLASH>>, <<SP>>, <<LF>>}, MaxBody)}

\* \u{...} escapes of at most MaxHex digits 0, 1 and D.
MaxHex == 7
HexInputs ==
  {<<QUOTE, BSLASH, 117, LBRACE>> \o h \o <<RBRACE, QUOTE>>
     : h \in Concats({<<48>>, <<49>>, <<68>>}, MaxHex)}

\* Raw strings: at most MaxHashes opening hashes, a quote, and at most
\* MaxRawRest characters of quote, hash and backslash.
MaxHashes == 2
MaxRawRest == 5
RawInputs ==
  {Repeat(<<HASH>>, n) \o <<QUOTE>> \o r
     : n \in 1..MaxHashes, r \in Concats({<<QUOTE>>, <<HASH>>, <<BSLASH>>}, MaxRawRest)}

\* Numbers: a sign, a base prefix and at most MaxDigits of 1, 0 and "_"; the
\* floats whose parts are at most two of 1 and "_"; the hexadecimal literals
\* around i128::MAX.
MaxDigits == 3
NumSigns == {<<>>, <<MINUS>>, <<PLUS>>}
Prefix_0x == <<48, 120>>
Prefix_0o == <<48, 111>>
Prefix_0b == <<48, 98>>
RadixPrefixes == {<<>>, Prefix_0x, Prefix_0o, Prefix_0b}
DigitRuns == Concats({<<49>>, <<48>>, <<UNDERSCORE>>}, MaxDigits)
IntegerTexts == {sg \o pre \o d : sg \in NumSigns, pre \in RadixPrefixes, d \in DigitRuns}
FloatParts == Concats({<<49>>, <<UNDERSCORE>>}, 2)
Letter_e == <<101>>
FloatTexts ==
  {i \o <<DOT>> \o f : i \in FloatParts, f \in FloatParts}
    \cup {i \o Letter_e \o sg \o x : i \in FloatParts, sg \in NumSigns, x \in FloatParts}
    \cup {i \o <<DOT>> \o f \o Letter_e \o x
            : i \in FloatParts, f \in FloatParts, x \in FloatParts}
HexMax == <<55>> \o Repeat(<<102>>, 31)
HexOver == <<56>> \o Repeat(<<48>>, 31)
HexBodies ==
  {HexMax, HexOver, <<48>> \o HexMax, <<48>> \o HexOver, HexOver \o <<UNDERSCORE>>,
   <<56, UNDERSCORE>> \o Repeat(<<48>>, 31), <<49>> \o Repeat(<<48>>, 32)}
BigHexTexts == {sg \o pre \o b : sg \in NumSigns, pre \in {Prefix_0x, <<48, 88>>}, b \in HexBodies}
NumInputs == IntegerTexts \cup FloatTexts \cup BigHexTexts

\* Comments: "/*" and at most MaxComment of "/", "*" and a letter.
MaxComment == 6
CommentInputs == {<<SLASH, STAR>> \o b : b \in Concats({<<SLASH>>, <<STAR>>, Letter_a}, MaxComment)}

\* Nodes with slashdashed entries: the name a and at most MaxEntries entries,
\* an argument x or a property x=1, each after a space, plain or behind
\* "/-" or "/- ".
MaxEntries == 3
EntryWords == {Letter_x, <<120, EQUALS, 49>>}
SlashDash == <<SLASH, MINUS>>
EntryFrags ==
  {<<SP>> \o d \o w : d \in {<<>>, SlashDash, SlashDash \o <<SP>>}, w \in EntryWords}
DashInputs == {Letter_a \o es : es \in Concats(EntryFrags, MaxEntries)}

\* Node names: a bare, quoted or raw name, empty or not, and at most two
\* fragments of a document after it.
NodeNames ==
  {Letter_a, <<QUOTE, QUOTE>>, <<QUOTE, 97, QUOTE>>, <<HASH, QUOTE, QUOTE, HASH>>,
   <<HASH, QUOTE, 97, QUOTE, HASH>>}
NameInputs == {n \o r : n \in NodeNames, r \in Concats(DocFrags, 2)}

\* The rest of a malformed string body: at most MaxBadval of a letter, a
\* quote, a space and a hash.
MaxBadval == 4
BadvalInputs == Concats({Letter_x, <<QUOTE>>, <<SP>>, <<HASH>>}, MaxBadval)

\* Entries with a type annotation: (a) with or without a space on each side
\* of the name, a space or none before the value 1 or x; positional or the
\* property x with or without a space around "=".
Gaps == {<<>>, <<SP>>}
TypedValues ==
  {<<LPAREN>> \o b \o Letter_a \o c \o <<RPAREN>> \o g \o v
     : b \in Gaps, c \in Gaps, g \in Gaps, v \in {<<49>>, Letter_x}}
PropKeys == {Letter_x \o b \o <<EQUALS>> \o c : b \in Gaps, c \in Gaps}
TypedInputs == {k \o v : k \in {<<>>} \cup PropKeys, v \in TypedValues}

\* Texts for the repetitions: at most MaxLoop of a name, a space, a newline,
\* a slashdash, a backslash, a quote, a comment and an opening brace.
MaxLoop == 3
LoopFrags ==
  {Letter_a, <<SP>>, <<LF>>, SlashDash, <<BSLASH>>, <<QUOTE>>,
   <<SLASH, STAR, STAR, SLASH>>, <<LBRACE>>}
LoopInputs == Concats(LoopFrags, MaxLoop)

(***************************************************************************)
(* Specifications                                                          *)
(***************************************************************************)
InitWith(inputs) ==
  /\ input \in inputs
  /\ build \in Builds
  /\ entry = ""
  /\ pc = "ready"
  /\ outcome = NoOutcome

Init == InitWith(DocInputs)
Next == ParseDocument \/ ParseNode \/ ParseEntry
Spec == Init /\ [][Next]_vars

NextString == ParseString \/ ParseIdentifier
InitIdent == InitWith(IdentInputs)
SpecIdent == InitIdent /\ [][NextString]_vars
InitML == InitWith(MLInputs)
SpecML == InitML /\ [][NextString]_vars
InitEsc == InitWith(EscInputs)
SpecEsc == InitEsc /\ [][NextString]_vars
InitHex == InitWith(HexInputs)
SpecHex == InitHex /\ [][NextString]_vars
InitRaw == InitWith(RawInputs)
SpecRaw == InitRaw /\ [][NextString]_vars
NextNumber == ParseNumber \/ ParseHex
InitNum == InitWith(NumInputs)
SpecNum == InitNum /\ [][NextNumber]_vars

NextComment == ParseComment \/ ParseDocument
InitComment == InitWith(CommentInputs)
SpecComment == InitComment /\ [][NextComment]_vars

NextDash == ParseNode \/ ParseDocument
InitDash == InitWith(DashInputs)
SpecDash == InitDash /\ [][NextDash]_vars

NextName == ParseDocument \/ ParseNode
InitName == InitWith(NameInputs)
SpecName == InitName /\ [][NextName]_vars

NextBadval == ParseQuotedBadval \/ ParseRawBadval
InitBadval == InitWith(BadvalInputs)
SpecBadval == InitBadval /\ [][NextBadval]_vars

NextTyped == ParseEntry \/ ParseNode
InitTyped == InitWith(TypedInputs)
SpecTyped == InitTyped /\ [][NextTyped]_vars

NextLoop == ParseDocument \/ ParseNode
InitLoop == InitWith(LoopInputs)
SpecLoop == InitLoop /\ [][NextLoop]_vars

(***************************************************************************)
(* Properties                                                              *)
(***************************************************************************)
Done == pc = "done"
Returned == Done /\ outcome.kind # "Panic"

\* C1: try_parse returns Ok(v) exactly when the parser produced the value v,
\* consumed the whole input and recorded no error; in every other case in
\* which it returns, it returns the failure that carries the input and, first
\* and in order, one diagnostic for each recorded error.
C1_TryParseOkIffCleanParse ==
  Returned =>
    LET r == outcome.parsed
        clean == r.t = "Ok" /\ r.pos = Len(input) /\ r.errs = <<>>
        ds == outcome.failure.diagnostics
    IN /\ outcome.kind = "Ok" <=> clean
       /\ clean => outcome.value = <<r.v>>
       /\ ~clean => /\ outcome.kind = "Err"
                    /\ outcome.failure.input = input
                    /\ Len(ds) = Len(r.errs) + 1
                    /\ \A i \in 1..Len(r.errs) : ds[i] = KdlDiagnostic(input, r.errs[i])

\* A parse that produced a value and recorded nothing, but left input unread.
C1_Witness ==
  /\ Done
  /\ outcome.parsed.t = "Ok"
  /\ outcome.parsed.errs = <<>>
  /\ outcome.parsed.pos < Len(input)
  /\ outcome.kind = "Err"

\* Two nodes on two lines, each with a quoted string that breaks the string
\* body rule or the multi-line prefix rule.
BadQuoted == {BadEscape, BadPrefix}
TwoBadQuotedNodes ==
  {x \o <<LF>> \o y : x, y \in BadQuoted \cup {Letter_a \o <<SP>> \o b : b \in BadQuoted}}

\* C2: a document with two independent errors, one in each of two nodes,
\* fails with two diagnostics, one per error.
C2_TwoErrorsTwoDiagnostics ==
  Done /\ entry = "document" /\ input \in TwoBadQuotedNodes =>
    outcome.kind = "Err" /\ Len(outcome.failure.diagnostics) = 2

RECURSIVE Flatten(_)
Flatten(seqs) == IF seqs = <<>> THEN <<>> ELSE Head(seqs) \o Flatten(Tail(seqs))

\* The text of an entry: its leading trivia and the text its span covers.
EntryText(s, e) ==
  e.format.leading \o SubSeq(s, e.span.offset + 1, e.span.offset + e.span.len)

TypeText(n) ==
  IF n.ty = <<>> THEN <<>>
  ELSE <<LPAREN>> \o n.format.before_ty_name \o n.ty[1].repr \o n.format.after_ty_name
         \o <<RPAREN>>

\* The text of a node and of a document, from the fields of the tree.
RECURSIVE NodeText(_, _)
DocText(s, d) ==
  d.format.leading \o Flatten([i \in 1..Len(d.nodes) |-> NodeText(s, d.nodes[i])])
    \o d.format.trailing
NodeText(s, n) ==
  n.format.leading \o TypeText(n) \o n.format.after_ty \o n.name.repr
    \o Flatten([i \in 1..Len(n.entries) |-> EntryText(s, n.entries[i])])
    \o (IF n.children = <<>> THEN <<>>
        ELSE n.format.before_children \o <<LBRACE>> \o DocText(s, n.children[1])
               \o <<RBRACE>>)
    \o n.format.trailing

\* Every node of the document, at every depth, has the text it consumed.
RECURSIVE NodesExact(_, _)
NodesExact(s, d) ==
  \A i \in 1..Len(d.nodes) :
    LET n == d.nodes[i]
    IN /\ NodeText(s, n) = SubSeq(s, n.consumed[1] + 1, n.consumed[2])
       /\ n.children # <<>> => NodesExact(s, n.children[1])

\* C3: for every node of a parsed document, the last child of a children
\* block included, the trivia slots, name, entries, children and trailing, in
\* order, are the text the node consumed.
C3_NodeTextIsConsumedText ==
  Done /\ entry = "document" /\ outcome.kind = "Ok" =>
    NodesExact(input, outcome.value[1])

\* The text of the string a call of string or identifier returned.
StringValue ==
  IF entry = "identifier" THEN outcome.value[1].value ELSE outcome.value[1][1].val

KeywordWords == {KW_true, KW_false, KW_null, KW_inf, KW_neg_inf, KW_nan}

\* The run of identifier characters the input starts with.
IdentRun(s) == SubSeq(s, 1, identifier_chars(s, 0, <<>>))

\* C4: none of the words true, false, null, inf, -inf, nan is accepted as an
\* identifier string: when the run of identifier characters is one of them,
\* string and identifier fail.
C4_KeywordWordsAreNoIdentifiers ==
  Done /\ IdentRun(input) \in KeywordWords => outcome.parsed.t # "Ok"

(* Multi-line strings, read off the text. *)
LineTerminators == {CR, LF, NEL, FF, LS, PS}
TerminatorLen(s, p) ==
  IF At(s, p) = CR /\ At(s, p + 1) = LF THEN 2
  ELSE IF At(s, p) \in LineTerminators THEN 1
  ELSE 0

\* The lines of s from p on, split at every terminator, CRLF being one.
RECURSIVE SplitLines(_, _, _)
SplitLines(s, p, cur) ==
  LET n == TerminatorLen(s, p)
  IN IF p >= Len(s) THEN <<cur>>
     ELSE IF n > 0 THEN <<cur>> \o SplitLines(s, p + n, <<>>)
     ELSE SplitLines(s, p + 1, Append(cur, s[p + 1]))

OpeningHashes(s) == RunIn(s, 0, {HASH})
ClosingDelimiter(s) == <<QUOTE>> \o SubSeq(s, 1, OpeningHashes(s))

\* s is a quote, perhaps between hashes, a text, and the matching delimiter.
IsDelimited(s) ==
  LET h == OpeningHashes(s)
  IN /\ Len(s) >= 2 * h + 2
     /\ s[h + 1] = QUOTE
     /\ SubSeq(s, Len(s) - h, Len(s)) = ClosingDelimiter(s)
Interior(s) == SubSeq(s, OpeningHashes(s) + 2, Len(s) - OpeningHashes(s) - 1)

Lines(s) == SplitLines(Interior(s), 0, <<>>)
LastLine(ls) == ls[Len(ls)]
MiddleLines(ls) == SubSeq(ls, 2, Len(ls) - 1)
ClosingPrefix(s) == LastLine(Lines(s))
InteriorLines(s) == MiddleLines(Lines(s))
StartsWith(l, pre) == Len(l) >= Len(pre) /\ SubSeq(l, 1, Len(pre)) = pre
OnlySpaces(l) == \A i \in 1..Len(l) : l[i] \in UNICODE_SPACES
PlainText(l) ==
  \A i \in 1..Len(l) : l[i] \notin {QUOTE, BSLASH, HASH} /\ ~is_disallowed_unicode(l[i])

\* A newline after the opening quote, interior lines, and a closing line of
\* Unicode spaces only.
MultiLineShape(s) ==
  /\ IsDelimited(s)
  /\ LET ls == Lines(s)
     IN /\ Len(ls) >= 3
        /\ ls[1] = <<>>
        /\ OnlySpaces(LastLine(ls))
        /\ \A i \in 2..(Len(ls) - 1) : PlainText(ls[i])

WellFormedMultiLine(s) ==
  /\ MultiLineShape(s)
  /\ LET ls == Lines(s)
     IN \A i \in 2..(Len(ls) - 1) : ls[i] = <<>> \/ StartsWith(ls[i], LastLine(ls))

RECURSIVE JoinLines(_)
JoinLines(ls) ==
  IF ls = <<>> THEN <<>>
  ELSE IF Len(ls) = 1 THEN ls[1]
  ELSE ls[1] \o <<LF>> \o JoinLines(Tail(ls))

\* The interior lines without the closing line's prefix, joined by LF.
DedentedValue(s) ==
  LET ls == Lines(s)
      pre == Len(LastLine(ls))
  IN JoinLines([i \in 1..(Len(ls) - 2) |->
                  LET l == ls[i + 1]
                  IN IF l = <<>> THEN l ELSE SubSeq(l, pre + 1, Len(l))])

\* C5: the value of a well-formed multi-line string, quoted or raw, is its
\* interior lines without the closing line's prefix, joined by one LF per
\* line terminator, CRLF being one; no CR, NEL, FF, LS or PS is in it.
C5_MultiLineValueIsDedentedLines ==
  Done /\ WellFormedMultiLine(input) =>
    /\ outcome.kind = "Ok"
    /\ StringValue = DedentedValue(input)
    /\ \A i \in 1..Len(StringValue) : StringValue[i] \notin {CR, NEL, FF, LS, PS}

\* Two indented lines ended by CRLF, parsed.
C5_Witness ==
  /\ Done
  /\ WellFormedMultiLine(input)
  /\ Len(InteriorLines(input)) = 2
  /\ ClosingPrefix(input) # <<>>
  /\ \E i \in 1..Len(input) : input[i] = CR /\ At(input, i) = LF
  /\ outcome.kind = "Ok"
  /\ \E i \in 1..Len(StringValue) : StringValue[i] = LF

MatchingPrefixLabel == "matching multiline string prefix"

\* C6: a multi-line string, quoted or raw, with an interior line that has a
\* character other than a space and does not start with the closing line's
\* prefix fails, with a diagnostic labelled "matching multiline string prefix".
C6_PrefixMismatchIsLabelled ==
  Done /\ MultiLineShape(input)
       /\ (\E i \in 1..Len(InteriorLines(input)) :
             /\ ~OnlySpaces(InteriorLines(input)[i])
             /\ ~StartsWith(InteriorLines(input)[i], ClosingPrefix(input)))
    => /\ outcome.kind = "Err"
       /\ \E i \in 1..Len(outcome.failure.diagnostics) :
            LET d == outcome.failure.diagnostics[i]
            IN d.label = <<MatchingPrefixLabel>> \/ d.kind = <<"Context", MatchingPrefixLabel>>

\* C7: a multi-line string whose interior lines start with the closing
\* line's prefix or are made of spaces only is accepted, the lines of spaces
\* shorter than the prefix included.
C7_SpaceOnlyLinesAreAccepted ==
  Done /\ MultiLineShape(input)
       /\ (\A i \in 1..Len(InteriorLines(input)) :
             \/ OnlySpaces(InteriorLines(input)[i])
             \/ StartsWith(InteriorLines(input)[i], ClosingPrefix(input)))
       /\ (\E i \in 1..Len(InteriorLines(input)) :
             /\ OnlySpaces(InteriorLines(input)[i])
             /\ ~StartsWith(InteriorLines(input)[i], ClosingPrefix(input)))
    => outcome.kind = "Ok"

(* Whitespace escapes, read off the text. *)
EscapableSpace == UNICODE_SPACES \cup LineTerminators

\* Every backslash of b from p on is followed by a space or a newline, and
\* every newline is part of such a run.
RECURSIVE OnlyWsEscapes(_, _)
OnlyWsEscapes(b, p) ==
  IF p >= Len(b) THEN TRUE
  ELSE IF b[p + 1] = BSLASH
       THEN At(b, p + 1) \in EscapableSpace /\ OnlyWsEscapes(b, RunIn(b, p + 1, EscapableSpace))
  ELSE IF b[p + 1] \in LineTerminators \cup {QUOTE} THEN FALSE
  ELSE OnlyWsEscapes(b, p + 1)

\* b from p on without its whitespace escapes.
RECURSIVE WithoutWsEscapes(_, _)
WithoutWsEscapes(b, p) ==
  IF p >= Len(b) THEN <<>>
  ELSE IF b[p + 1] = BSLASH THEN WithoutWsEscapes(b, RunIn(b, p + 1, EscapableSpace))
  ELSE <<b[p + 1]>> \o WithoutWsEscapes(b, p + 1)

\* C8: a backslash followed by one or more spaces or newlines is accepted at
\* every position of a quoted string's body, right before the closing quote
\* included, and adds no character to the value.
C8_WsEscapeAcceptedEverywhere ==
  Done /\ IsDelimited(input) /\ OpeningHashes(input) = 0
       /\ BSLASH \in {input[i] : i \in 1..Len(input)}
       /\ OnlyWsEscapes(Interior(input), 0)
    => outcome.kind = "Ok" /\ StringValue = WithoutWsEscapes(Interior(input), 0)

(* Unicode escapes, read off the text. *)
\* The digits of the input "\u{digits}".
EscapeDigits(s) == SubSeq(s, 5, Len(s) - 2)
MaxEscapeDigits == 6
MaxScalarValue == 1114111
Surrogates == 55296..57343

\* C9: the escape \u{H...} is accepted exactly when it has 1 to 6 hex digits
\* that are the number of a Unicode scalar value, and yields that character.
C9_UnicodeEscapeOneToSixDigits ==
  Done =>
    LET h == EscapeDigits(input)
        n == HexValue(h)
        scalar == Len(h) \in 1..MaxEscapeDigits /\ n <= MaxScalarValue /\ n \notin Surrogates
    IN /\ outcome.kind = "Ok" <=> scalar
       /\ outcome.kind = "Ok" => StringValue = <<n>>

(* Raw strings, read off the text. *)
\* The first place from p on where d starts in s, or -1.
RECURSIVE FirstAt(_, _, _)
FirstAt(s, p, d) ==
  IF p + Len(d) > Len(s) THEN -1
  ELSE IF SubSeq(s, p + 1, p + Len(d)) = d THEN p
  ELSE FirstAt(s, p + 1, d)

\* C10: a raw string opened with n hashes is closed by the first quote that n
\* hashes follow, and by nothing else: it parses exactly when the input ends
\* with that delimiter, and its value is the text before it, backslashes and
\* quotes with fewer hashes included.
C10_RawStringClosedByMatchingHashes ==
  Done =>
    LET n == OpeningHashes(input)
        q == FirstAt(input, n + 1, ClosingDelimiter(input))
    IN /\ outcome.kind = "Ok" <=> (q # -1 /\ q + 1 + n = Len(input))
       /\ outcome.kind = "Ok" => StringValue = SubSeq(input, n + 2, q)

\* A string opened with two hashes whose value holds a quote followed by one
\* hash.
C10_Witness ==
  /\ Done
  /\ OpeningHashes(input) = 2
  /\ outcome.kind = "Ok"
  /\ \E i \in 1..Len(StringValue) :
       StringValue[i] = QUOTE /\ At(StringValue, i) = HASH

(* Numbers, read off the text. *)
SignLen(s) == IF At(s, 0) \in {PLUS, MINUS} THEN 1 ELSE 0
SignOf(s) == IF At(s, 0) = MINUS THEN -1 ELSE 1

\* The radix the base prefix after the sign names, 10 without one.
RadixOf(s) ==
  LET q == SignLen(s)
  IN IF At(s, q) # 48 THEN 10
     ELSE IF At(s, q + 1) \in {120, 88} THEN 16
     ELSE IF At(s, q + 1) \in {111, 79} THEN 8
     ELSE IF At(s, q + 1) \in {98, 66} THEN 2
     ELSE 10
DigitsOf(radix) ==
  CASE radix = 16 -> HexDigits
    [] radix = 8 -> OctDigits
    [] radix = 2 -> {48, 49}
    [] radix = 10 -> DecDigits
BodyStart(s) == SignLen(s) + (IF RadixOf(s) = 10 THEN 0 ELSE 2)

\* The digit runs of a literal: the integer part, the fraction after a ".",
\* the exponent after "e" and a sign; each is the text of digits and "_" at
\* the place where the run has to start.
NumberShape(s) ==
  LET radix == RadixOf(s)
      ds == DigitsOf(radix) \cup {UNDERSCORE}
      b == BodyStart(s)
      intEnd == RunIn(s, b, ds)
      hasDot == radix = 10 /\ At(s, intEnd) = DOT
      fracEnd == IF hasDot THEN RunIn(s, intEnd + 1, ds) ELSE intEnd
      hasExp == radix = 10 /\ At(s, fracEnd) \in {101, 69}
      expStart == IF At(s, fracEnd + 1) \in {PLUS, MINUS} THEN fracEnd + 2 ELSE fracEnd + 1
      expEnd == IF hasExp THEN RunIn(s, expStart, ds) ELSE fracEnd
  IN [radix |-> radix,
      isFloat |-> hasDot \/ hasExp,
      runs |-> <<SubSeq(s, b + 1, intEnd)>>
                 \o (IF hasDot THEN <<SubSeq(s, intEnd + 2, fracEnd)>> ELSE <<>>)
                 \o (IF hasExp THEN <<SubSeq(s, expStart + 1, expEnd)>> ELSE <<>>),
      end |-> expEnd]

\* The number a digit run writes, its underscores skipped.
RECURSIVE NumberOf(_, _, _)
NumberOf(txt, radix, acc) ==
  IF txt = <<>> THEN acc
  ELSE IF txt[1] = UNDERSCORE THEN NumberOf(Tail(txt), radix, acc)
  ELSE NumberOf(Tail(txt), radix, acc * radix + DigitValue(txt[1]))

\* The number a KdlValue::Integer of the model holds.
RECURSIVE DigitsNumber(_, _, _)
DigitsNumber(ds, radix, acc) ==
  IF ds = <<>> THEN acc ELSE DigitsNumber(Tail(ds), radix, acc * radix + ds[1])
IntegerOf(v, radix) == (IF v.val.neg THEN -1 ELSE 1) * DigitsNumber(v.val.digits, radix, 0)

WithoutUnderscores(txt) == SelectSeq(txt, LAMBDA c : c # UNDERSCORE)

\* The call is of number, or of hex on a literal with the prefix 0x.
NumberCall(sh) == Done /\ (entry = "number" \/ (entry = "hex" /\ sh.radix = 16))

\* C11: in every numeric form a "_" that is the first character of a digit
\* run, right after a base prefix included, makes the parser fail; a literal
\* whose runs start with a digit and go on with digits and "_" is accepted,
\* trailing "_" included, with the value its digits alone write.
C11_UnderscoreNeverFirstInDigitRun ==
  LET sh == NumberShape(input)
  IN NumberCall(sh) =>
       /\ (\E i \in 1..Len(sh.runs) : At(sh.runs[i], 0) = UNDERSCORE)
            => outcome.parsed.t \in {"Bt", "Cut"}
       /\ ( /\ sh.end = Len(input)
            /\ Len(sh.runs[1]) <= MaxDigits
            /\ \A i \in 1..Len(sh.runs) : At(sh.runs[i], 0) \in DigitsOf(sh.radix) )
            => /\ outcome.kind = "Ok"
               /\ IF sh.isFloat
                  THEN outcome.value[1] = [kind |-> "Float", val |-> WithoutUnderscores(input)]
                  ELSE /\ outcome.value[1].kind = "Integer"
                       /\ IntegerOf(outcome.value[1], sh.radix)
                            = SignOf(input) * NumberOf(sh.runs[1], sh.radix, 0)

\* -0x1_0 parsed as -16.
C11_Witness ==
  /\ Done
  /\ entry = "number"
  /\ input = <<MINUS, 48, 120, 49, UNDERSCORE, 48>>
  /\ outcome.kind = "Ok"
  /\ IntegerOf(outcome.value[1], 16) = -16

\* A literal 0x... whose digits, without "_" and leading zeros, are more than
\* 32 or are 32 with a first digit of 8 or more: a magnitude of 2^127 or more.
HexOverflowing(s) ==
  LET sh == NumberShape(s)
      ds == DropLeadingZeros([i \in 1..Len(WithoutUnderscores(sh.runs[1]))
                                |-> DigitValue(WithoutUnderscores(sh.runs[1])[i])])
  IN /\ sh.radix = 16
     /\ sh.end = Len(s)
     /\ At(sh.runs[1], 0) \in HexDigits
     /\ Len(ds) > 32 \/ (Len(ds) = 32 /\ ds[1] >= 8)

\* C12: a hexadecimal literal whose magnitude does not fit in i128 makes hex
\* fail with a recoverable error labelled "hexadecimal", and number produces
\* no value for the literal or a prefix of it.
C12_HexOverflowYieldsNoInteger ==
  Done /\ HexOverflowing(input) =>
    /\ entry = "hex" => outcome.parsed.t = "Bt" /\ outcome.parsed.e.context = <<"hexadecimal">>
    /\ entry = "number" => outcome.parsed.t # "Ok"

(* Multi-line comments, read off the text. *)
\* The cursor after the "*/" that closes the comment open at depth `depth`
\* when the text is read from p on, -1 when the text ends before it.
RECURSIVE CommentEnd(_, _, _)
CommentEnd(s, p, depth) ==
  IF p >= Len(s) THEN -1
  ELSE IF At(s, p) = STAR /\ At(s, p + 1) = SLASH
       THEN IF depth = 1 THEN p + 2 ELSE CommentEnd(s, p + 2, depth - 1)
  ELSE IF At(s, p) = SLASH /\ At(s, p + 1) = STAR THEN CommentEnd(s, p + 2, depth + 1)
  ELSE CommentEnd(s, p + 1, depth)

ClosingOfComment == "closing of multi-line comment"

\* C13: multi_line_comment consumes from "/*" up to the "*/" that brings the
\* nesting depth back to zero, every inner "/*" opening a nested comment; when
\* the input ends with a level open, it fails with an unrecoverable error
\* labelled "closing of multi-line comment".
C13_CommentEndsAtMatchingClose ==
  Done /\ entry = "multi_line_comment" =>
    LET end == CommentEnd(input, 2, 1)
        r == outcome.parsed
    IN IF end >= 0
       THEN r.t = "Ok" /\ r.pos = end
       ELSE /\ r.t = "Cut"
            /\ r.e.context = <<ClosingOfComment>>
            /\ outcome.kind = "Err"
            /\ outcome.failure.diagnostics[Len(outcome.failure.diagnostics)].kind
                 = <<"Context", ClosingOfComment>>

\* A comment with a nested comment, consumed to its own close.
C13_Witness ==
  /\ Done
  /\ entry = "multi_line_comment"
  /\ input = <<SLASH, STAR, SLASH, STAR, STAR, SLASH, STAR, SLASH>>
  /\ outcome.kind = "Ok"
  /\ outcome.parsed.pos = 8

(* Children blocks, read off the text. *)
ClosingOfChildren == "closing of children"
NoBraces(txt) == \A i \in 1..Len(txt) : txt[i] \notin {LBRACE, RBRACE}

\* A node name, an opening brace, and a text without a brace: the block's
\* nodes end at a character that is not "}" or at the end of the input.
UnclosedChildren(s) ==
  /\ Len(s) >= 2
  /\ s[1] = 97
  /\ \/ s[2] = LBRACE /\ NoBraces(SubSeq(s, 3, Len(s)))
     \/ Len(s) >= 3 /\ s[2] = SP /\ s[3] = LBRACE /\ NoBraces(SubSeq(s, 4, Len(s)))

\* C14: a children block that is opened and not closed by "}" after its
\* nodes ends the parse with an unrecoverable error labelled "closing of
\* children", the diagnostics recorded before it kept in the failure.
C14_MissingBraceIsLabelled ==
  Done /\ entry = "document" /\ UnclosedChildren(input) =>
    LET ds == outcome.failure.diagnostics
    IN /\ outcome.kind = "Err"
       /\ outcome.parsed.t = "Cut"
       /\ Len(ds) = Len(outcome.parsed.errs) + 1
       /\ ds[Len(ds)].label = <<ClosingOfChildren>>
            \/ ds[Len(ds)].kind = <<"Context", ClosingOfChildren>>

(* Type annotations. *)
TypeName == "type name"

\* "()a", a node with an annotation that holds no identifier, then a line
\* with a sound node.
BadTypeDocs == {BadType \o <<LF>> \o y : y \in GoodNodes}

\* C15: an annotation whose text is not an identifier but is closed by ")"
\* costs one "type name" diagnostic: the parser skips to the ")", consumes
\* it and parses the node, and the nodes after it, with an absent type.
C15_BadTypeNameIsRecovered ==
  Done /\ entry = "document" /\ input \in BadTypeDocs =>
    LET r == outcome.parsed
    IN /\ r.t = "Ok"
       /\ r.pos = Len(input)
       /\ Len(r.errs) = 1
       /\ r.errs[1].context = <<TypeName>>
       /\ Len(r.v.nodes) = 2
       /\ r.v.nodes[1].ty = <<>>
       /\ r.v.nodes[1].name.value = Letter_a

(* Spans of diagnostics. *)
\* The byte offset of the "{" of a text of UnclosedChildren.
BraceOffset(s) == IF s[2] = LBRACE THEN 1 ELSE 2

\* C16: a diagnostic made by from_recoverable_error spans from the absolute
\* offset where the committed production started to the absolute offset of
\* the cursor at the failure.  For a children block left open the
\* production is the document, at 0, or the block, at its "{"; the cursor is
\* where the "}" was missed, within the input.
C16_SpanFromCutPointToCursor ==
  Done /\ entry = "document" /\ UnclosedChildren(input) =>
    LET ds == outcome.failure.diagnostics
        d == ds[Len(ds)]
    IN /\ outcome.kind = "Err"
       /\ d.span.offset \in {0, BraceOffset(input)}
       /\ d.span.offset + d.span.len = Location(input, outcome.parsed.pos)
       /\ d.span.offset + d.span.len <= Location(input, Len(input))

(* The diagnostics of a failure. *)
\* The errors try_parse hands to failure_from_errs: the recorded ones, then
\* the one the parse ended with.
ErrsOfParse == recoverable_parse(input, outcome.parsed).errs

\* The diagnostic d reports the error e.
ReportsError(d, e) ==
  /\ d.input = input
  /\ d.span = IF e.span = <<>> THEN SourceSpan(0, 0) ELSE e.span[1]
  /\ d.kind = IF e.context = <<>> THEN <<"Other">> ELSE <<"Context", e.context[1]>>
  /\ d.severity = "Error"

\* C17: the diagnostics of a returned failure are the recorded errors, one
\* diagnostic for each, in the order of recording: none dropped, doubled or
\* moved.
C17_DiagnosticsAreErrorsInOrder ==
  Done /\ outcome.kind = "Err" =>
    LET ds == outcome.failure.diagnostics
    IN /\ Len(ds) = Len(ErrsOfParse)
       /\ \A i \in 1..Len(ds) : ReportsError(ds[i], ErrsOfParse[i])

\* A failure with two diagnostics that differ.
C17_Witness ==
  /\ Done
  /\ outcome.kind = "Err"
  /\ Len(outcome.failure.diagnostics) = 2
  /\ outcome.failure.diagnostics[1].kind # outcome.failure.diagnostics[2].kind
  /\ outcome.failure.diagnostics[1].span.offset < outcome.failure.diagnostics[2].span.offset

(* Slashdashed entries, read off the text. *)
\* The entries of the text of a node from p on that are not behind a "/-",
\* each with the text between the entry before it (or the name) and itself.
RECURSIVE KeptEntries(_, _, _, _)
KeptEntries(s, p, gap, acc) ==
  IF p >= Len(s) THEN acc
  ELSE LET dashed == At(s, p + 1) = SLASH /\ At(s, p + 2) = MINUS
           q == IF dashed THEN p + 3 ELSE p + 1
           start == IF dashed /\ At(s, q) = SP THEN q + 1 ELSE q
           end == RunNotIn(s, start, {SP})
       IN IF dashed THEN KeptEntries(s, end, gap, acc)
          ELSE KeptEntries(s, end, end,
                 Append(acc, [leading |-> SubSeq(s, gap + 1, start),
                              text |-> SubSeq(s, start + 1, end)]))

\* The node a call of document or padded_node returned.
ParsedNode == IF entry = "document" THEN outcome.value[1].nodes[1] ELSE outcome.value[1]

\* C18: the entries of a node are its entries that are not slashdashed, in
\* source order; a slashdashed entry is parsed, adds no entry, and its text
\* is in the leading trivia of the entry that follows it.
C18_SlashdashedEntriesAreTrivia ==
  Done /\ input \in DashInputs =>
    LET kept == KeptEntries(input, 1, 1, <<>>)
    IN /\ outcome.kind = "Ok"
       /\ Len(ParsedNode.entries) = Len(kept)
       /\ \A i \in 1..Len(kept) :
            LET e == ParsedNode.entries[i]
            IN /\ e.format.leading = kept[i].leading
               /\ SubSeq(input, e.span.offset + 1, e.span.offset + e.span.len) = kept[i].text

\* a /-x x: one entry, x, with " /-x " before it.
C18_Witness ==
  /\ Done
  /\ input = Letter_a \o <<SP>> \o SlashDash \o Letter_x \o <<SP>> \o Letter_x
  /\ outcome.kind = "Ok"
  /\ Len(ParsedNode.entries) = 1
  /\ ParsedNode.entries[1].format.leading = <<SP>> \o SlashDash \o Letter_x \o <<SP>>
  /\ ParsedNode.entries[1].value.val = Letter_x

(* Node names. *)
\* Every node of the document, at every depth, has a name that is not "".
RECURSIVE NodesNamed(_)
NodesNamed(d) ==
  \A i \in 1..Len(d.nodes) :
    /\ d.nodes[i].name.value # <<>>
    /\ d.nodes[i].children # <<>> => NodesNamed(d.nodes[i].children[1])

\* C19: every node of a tree that was parsed successfully has a name that is
\* not empty, the names written as quoted or raw strings included.
C19_NodeNamesAreNonEmpty ==
  Done /\ outcome.kind = "Ok" =>
    IF entry = "document" THEN NodesNamed(outcome.value[1])
    ELSE NodesNamed([nodes |-> outcome.value])

(* Recovery inside strings, read off the text. *)
AfterString == UNICODE_SPACES \cup LineTerminators \cup {EOF}

\* The cursors at a quote that `hashes` hashes and then whitespace, a newline
\* or the end of the input follow.
ClosingQuotes(s, hashes) ==
  {p \in 0..(Len(s) - 1) :
     /\ s[p + 1] = QUOTE
     /\ RunIn(s, p + 1, {HASH}) - (p + 1) = hashes
     /\ At(s, p + 1 + hashes) \in AfterString}

Least(ps) == CHOOSE p \in ps : \A q \in ps : p <= q

\* C20: quoted_string_badval succeeds with the cursor at the first quote
\* that whitespace, a newline or the end of the input follows, and
\* raw_string_badval at the first quote followed by the run of hashes and
\* then by one of these, so that the closing delimiter can be consumed next.
C20_BadvalStopsAtClosingQuote ==
  /\ Done /\ entry = "quoted_string_badval" /\ ClosingQuotes(input, 0) # {} =>
       outcome.parsed.t = "Ok" /\ outcome.parsed.pos = Least(ClosingQuotes(input, 0))
  /\ Done /\ entry = "raw_string_badval" /\ ClosingQuotes(input, 1) # {} =>
       outcome.parsed.t = "Ok" /\ outcome.parsed.pos = Least(ClosingQuotes(input, 1))

(* Typed entries, read off the text. *)
\* The cursor of the first c in s, Len(s) when there is none.
IndexOf(s, c) == RunNotIn(s, 0, {c})

\* The parts of the text of a typed entry: the key and the spaces around
\* "=", the spaces around the type name, the spaces behind ")", the value.
TypedParts(s) ==
  LET open == IndexOf(s, LPAREN)
      nameStart == RunIn(s, open + 1, {SP})
      nameEnd == RunNotIn(s, nameStart, {SP, RPAREN})
      close == IndexOf(s, RPAREN)
      valueStart == RunIn(s, close + 1, {SP})
      eq == IndexOf(s, EQUALS)
  IN [isProp |-> open > 0,
      after_eq |-> IF open > 0 THEN SubSeq(s, eq + 2, open) ELSE <<>>,
      before_ty_name |-> SubSeq(s, open + 2, nameStart),
      after_ty_name |-> SubSeq(s, nameEnd + 1, close),
      after_ty |-> SubSeq(s, close + 2, valueStart),
      value_repr |-> SubSeq(s, valueStart + 1, Len(s))]

\* C21: the after_ty of an entry with a type annotation is the text between
\* the ")" and the value, for an argument and for a property alike; a
\* property keeps the value's after_ty, before_ty_name, after_ty_name and
\* value_repr, and adds the name and after_eq.
C21_PropKeepsValueFormat ==
  Done /\ entry = "padded_node_entry" /\ input \in TypedInputs =>
    LET parts == TypedParts(input)
        f == outcome.value[1].format
    IN /\ outcome.kind = "Ok"
       /\ f.before_ty_name = parts.before_ty_name
       /\ f.after_ty_name = parts.after_ty_name
       /\ f.value_repr = parts.value_repr
       /\ f.after_eq = parts.after_eq
       /\ (outcome.value[1].name # <<>>) = parts.isProp
       /\ f.after_ty = parts.after_ty

(* Multi-line strings without interior lines. *)
\* An opening delimiter, a newline, Unicode spaces and the closing delimiter.
EmptyMultiLine(s) ==
  /\ IsDelimited(s)
  /\ LET ls == Lines(s)
     IN Len(ls) = 2 /\ ls[1] = <<>> /\ OnlySpaces(ls[2])

\* C22: the text joined from the lines of a multi-line string is not empty
\* where its last LF is cut off, so the length minus one does not underflow:
\* a multi-line string without interior lines, quoted or raw, parses to the
\* empty string and does not panic.
C22_EmptyMultiLineDoesNotPanic ==
  Done /\ EmptyMultiLine(input) =>
    /\ outcome.kind # "Panic"
    /\ outcome.kind = "Ok"
    /\ StringValue = <<>>

(* Termination. *)
\* The parsers that stand under a repetition.
RepeatedParsers ==
  {"line_space", "node", "plain_node_space", "node_space", "plain_line_space", "ws",
   "unicode_space", "node_entry", "string_char", "QuotedBodyChar", "identifier_char",
   "commented_block"}

\* Wherever in s the parser `name` succeeds, the cursor has moved on.
Advances(name, s) ==
  \A p \in 0..Len(s) :
    LET r == parse_next(name, s, p, <<>>)
    IN r.t = "Ok" => r.pos > p /\ r.pos <= Len(s)

====
